---- MODULE Spec2Model ----
(***************************************************************************)
(* A state-machine model of the analysis core of pinksync_estimator:       *)
(* ResourceValidator (src/resource_validator.py), MicroMacroAnalyzer       *)
(* (src/micro_macro_analyzer.py), PerformanceAnalyzer                      *)
(* (src/performance_analyzer.py), BenchmarkingTool (src/benchmarking.py)    *)
(* and ComprehensiveReportGenerator (src/reporting.py).                    *)
(*                                                                         *)
(* One behaviour is the life of ONE analyzer instance: Init constructs it  *)
(* (the variable self names its class) and every step is one call of one   *)
(* of its public methods by the single caller.  The variable ret holds the *)
(* last call: its name, its arguments, whether it raised and what it       *)
(* returned.  One report generator lives beside the analyzer; its          *)
(* add_*_section methods are handed that analyzer.                         *)
(*                                                                         *)
(* Python floats are modelled as exact rationals (rounding error of the    *)
(* binary representation is not modelled); round(x, 2) is round-half-even  *)
(* on the exact value.  Timestamps and the period strings that are copied  *)
(* through unchanged are left out of the records.                          *)
(***************************************************************************)
EXTENDS Integers, Sequences, FiniteSets, TLC

VARIABLES
    self,                \* class of the instance under analysis
    tolerance_percent,   \* ResourceValidator.tolerance_percent
    validation_history,  \* ResourceValidator.validation_history
    user_samples,        \* MicroMacroAnalyzer.user_samples
    projections,         \* MicroMacroAnalyzer.projections
    latency_history,     \* PerformanceAnalyzer.latency_history
    throughput_history,  \* PerformanceAnalyzer.throughput_history
    load_test_results,   \* PerformanceAnalyzer.load_test_results
    custom_baselines,    \* BenchmarkingTool.custom_baselines
    comparison_history,  \* BenchmarkingTool.comparison_history
    sections,            \* ComprehensiveReportGenerator.sections
    anomalies,           \* ComprehensiveReportGenerator.anomalies
    report_metadata,     \* ComprehensiveReportGenerator.report_metadata
    ret                  \* the last call and its outcome

vars == <<self, tolerance_percent, validation_history, user_samples, projections,
          latency_history, throughput_history, load_test_results,
          custom_baselines, comparison_history, sections, anomalies, report_metadata, ret>>

rvVars == <<tolerance_percent, validation_history>>
mmVars == <<user_samples, projections>>
paVars == <<latency_history, throughput_history, load_test_results>>
btVars == <<custom_baselines, comparison_history>>
rpVars == <<sections, anomalies, report_metadata>>

(***************************************************************************)
(* Bounds of the exploration.                                              *)
(***************************************************************************)
MaxHist == 2
MaxBatch == 2

(***************************************************************************)
(* Exact rational arithmetic standing for Python float arithmetic.  A      *)
(* number is kept in canonical mixed form i + n/d with 0 <= n < d and      *)
(* gcd(n, d) = 1, so two numbers are equal exactly when the records are.   *)
(***************************************************************************)
RECURSIVE GCD(_, _)
GCD(a, b) == IF b = 0 THEN a ELSE GCD(b, a % b)

LCM(a, b) == (a \div GCD(a, b)) * b

Frac(num, den) ==
    LET r == num % den
        g == GCD(den, r)
    IN  [i |-> num \div den, n |-> r \div g, d |-> den \div g]

RInt(k) == [i |-> k, n |-> 0, d |-> 1]

RZero == RInt(0)

RAdd(a, b) ==
    LET l == LCM(a.d, b.d)
        f == Frac(a.n * (l \div a.d) + b.n * (l \div b.d), l)
    IN  [i |-> a.i + b.i + f.i, n |-> f.n, d |-> f.d]

RNeg(a) ==
    IF a.n = 0 THEN RInt(-a.i)
    ELSE [i |-> (-a.i) - 1, n |-> a.d - a.n, d |-> a.d]

RSub(a, b) == RAdd(a, RNeg(b))

RSign(a) == IF a.i < 0 THEN -1 ELSE IF a.i = 0 /\ a.n = 0 THEN 0 ELSE 1

RLt(a, b) == RSign(RSub(a, b)) < 0

RLe(a, b) == RSign(RSub(a, b)) <= 0

RAbs(a) == IF RSign(a) < 0 THEN RNeg(a) ELSE a

\* a * p / q for integers p and q > 0, without forming a.i * a.d
RScale(a, p, q) == RAdd(Frac(a.i * p, q), Frac(a.n * p, a.d * q))

\* the improper numerator of a (its denominator is a.d)
RNum(a) == a.i * a.d + a.n

\* a * b, cross-reduced before multiplying
RMul(a, b) ==
    LET g1 == GCD(IF RNum(a) < 0 THEN -RNum(a) ELSE RNum(a), b.d)
        g2 == GCD(IF RNum(b) < 0 THEN -RNum(b) ELSE RNum(b), a.d)
        h1 == IF g1 = 0 THEN 1 ELSE g1
        h2 == IF g2 = 0 THEN 1 ELSE g2
    IN  Frac((RNum(a) \div h1) * (RNum(b) \div h2), (a.d \div h2) * (b.d \div h1))

\* a / b for b > 0, the common factor of the denominators cancelled first
RDiv(a, b) ==
    LET g == GCD(a.d, b.d)
    IN  RMul(Frac(RNum(a), a.d \div g), Frac(b.d \div g, RNum(b)))

\* Python round(a, places) on the exact value, p10 = 10^places: the nearest
\* multiple of 1/p10, ties to the even one
RRound(a, p10) ==
    LET c == a.n * p10
        k == c \div a.d
        r == c % a.d
        up == (2 * r > a.d) \/ (2 * r = a.d /\ k % 2 = 1)
    IN  RAdd(RInt(a.i), Frac(IF up THEN k + 1 ELSE k, p10))

(***************************************************************************)
(* src/resource_validator.py                                               *)
(***************************************************************************)
ResourceType == {"storage", "compute", "bandwidth", "api_calls", "ai_inference"}

ValidationStatus == {"valid", "warning", "discrepancy", "critical"}

WARNING_THRESHOLD == 5
DISCREPANCY_THRESHOLD == 10
CRITICAL_THRESHOLD == 25

ResourceClaim(t, amount, unit, cost) ==
    [resource_type |-> t, claimed_amount |-> amount, unit |-> unit, cost |-> cost]

ResourceUsage(t, amount, unit) ==
    [resource_type |-> t, actual_amount |-> amount, unit |-> unit]

\* str.lower() on the unit strings the callers use
Lower(unit) ==
    CASE unit = "GB" -> "gb"
      [] unit = "Gb" -> "gb"
      [] unit = "TB" -> "tb"
      [] unit = "MB" -> "mb"
      [] unit = "KB" -> "kb"
      [] unit = "CPU-hours" -> "cpu-hours"
      [] unit = "CPU-Minutes" -> "cpu-minutes"
      [] unit = "CPU-seconds" -> "cpu-seconds"
      [] unit = "vCPU-hours" -> "vcpu-hours"
      [] OTHER -> unit

\* _normalize_storage with a decimal terabyte
_normalize_storage_decimal_tb(amount, unit) ==
    LET unit_lower == Lower(unit) IN
    IF unit_lower \in {"gb", "gigabyte", "gigabytes"} THEN RInt(amount)
    ELSE IF unit_lower \in {"mb", "megabyte", "megabytes"} THEN Frac(amount, 1024)
    ELSE IF unit_lower \in {"tb", "terabyte", "terabytes"} THEN RInt(amount * 1000)
    ELSE IF unit_lower \in {"kb", "kilobyte", "kilobytes"} THEN Frac(amount, 1024 * 1024)
    ELSE RInt(amount)

_normalize_storage(amount, unit) ==
    LET unit_lower == Lower(unit) IN
    IF unit_lower \in {"gb", "gigabyte", "gigabytes"} THEN RInt(amount)
    ELSE IF unit_lower \in {"mb", "megabyte", "megabytes"} THEN Frac(amount, 1024)
    ELSE IF unit_lower \in {"tb", "terabyte", "terabytes"} THEN RInt(amount * 1024)
    ELSE IF unit_lower \in {"kb", "kilobyte", "kilobytes"} THEN Frac(amount, 1024 * 1024)
    ELSE RInt(amount)

_normalize_compute(amount, unit) ==
    LET unit_lower == Lower(unit) IN
    IF unit_lower \in {"cpu-hours", "cpu_hours", "cpuhours"} THEN RInt(amount)
    ELSE IF unit_lower \in {"cpu-minutes", "cpu_minutes"} THEN Frac(amount, 60)
    ELSE IF unit_lower \in {"cpu-seconds", "cpu_seconds"} THEN Frac(amount, 3600)
    ELSE IF unit_lower \in {"vcpu-hours", "vcpu_hours"} THEN RInt(amount)
    ELSE RInt(amount)

\* _determine_status with inclusive upper ends
_determine_status_inclusive(variance_percent) ==
    IF RLe(variance_percent, RInt(WARNING_THRESHOLD)) THEN "valid"
    ELSE IF RLe(variance_percent, RInt(DISCREPANCY_THRESHOLD)) THEN "warning"
    ELSE IF RLe(variance_percent, RInt(CRITICAL_THRESHOLD)) THEN "discrepancy"
    ELSE "critical"

_determine_status(variance_percent) ==
    IF RLt(variance_percent, RInt(WARNING_THRESHOLD)) THEN "valid"
    ELSE IF RLt(variance_percent, RInt(DISCREPANCY_THRESHOLD)) THEN "warning"
    ELSE IF RLt(variance_percent, RInt(CRITICAL_THRESHOLD)) THEN "discrepancy"
    ELSE "critical"

\* the recommendation templates, named by their first words
_generate_storage_recommendations(variance_percent, is_over_billed, is_under_billed) ==
    IF RLt(RAbs(variance_percent), RInt(WARNING_THRESHOLD))
    THEN <<"Storage billing is accurate", "Continue monitoring">>
    ELSE IF is_over_billed
    THEN <<"ALERT: Under-billing detected", "Review storage monitoring", "Adjust billing">>
    ELSE IF is_under_billed
    THEN <<"Over-billing detected", "Opportunity to reduce costs",
           "Implement storage cleanup", "Consider tiered storage">>
    ELSE <<>>

_generate_compute_recommendations(variance_percent, is_over_billed, is_under_billed) ==
    IF RLt(RAbs(variance_percent), RInt(WARNING_THRESHOLD))
    THEN <<"Compute billing is accurate", "Maintain current resource monitoring">>
    ELSE IF is_over_billed
    THEN <<"ALERT: Under-billing detected", "Review compute metering", "Verify all workloads">>
    ELSE IF is_under_billed
    THEN <<"Over-billing detected", "Opportunity to reduce costs",
           "Consider auto-scaling", "Review and terminate idle instances">>
    ELSE <<>>

\* the body shared by validate_storage and validate_compute after the type checks
\* the variance taken as actual - claimed
Variance_swapped(claimed_normalized, actual_normalized) ==
    RSub(actual_normalized, claimed_normalized)

\* variance = claimed_normalized - actual_normalized
Variance(claimed_normalized, actual_normalized) ==
    RSub(claimed_normalized, actual_normalized)

ValidationResult(t, claimed_normalized, actual_normalized, cost) ==
    LET variance == Variance(claimed_normalized, actual_normalized)
        variance_percent ==
            IF RSign(claimed_normalized) > 0
            THEN RScale(RDiv(variance, claimed_normalized), 100, 1)
            ELSE RZero
        status == _determine_status(RAbs(variance_percent))
        is_over_billed == RSign(variance) < 0
        is_under_billed == RSign(variance) > 0
        cost_per_unit ==
            IF RSign(claimed_normalized) > 0
            THEN RDiv(RInt(cost), claimed_normalized)
            ELSE RZero
        discrepancy_cost == RMul(RAbs(variance), cost_per_unit)
    IN  [resource_type |-> t,
         status |-> status,
         claimed |-> claimed_normalized,
         actual |-> actual_normalized,
         variance |-> variance,
         variance_percent |-> variance_percent,
         is_over_billed |-> is_over_billed,
         is_under_billed |-> is_under_billed,
         discrepancy_cost |-> discrepancy_cost,
         recommendations |->
            IF t = "storage"
            THEN _generate_storage_recommendations(variance_percent, is_over_billed, is_under_billed)
            ELSE _generate_compute_recommendations(variance_percent, is_over_billed, is_under_billed),
         details |-> [unit |-> IF t = "storage" THEN "GB" ELSE "CPU-hours",
                      cost_per_unit |-> cost_per_unit]]

\* does validate_storage / validate_compute raise ValueError on these records
\* the type check looking at the claim only
StorageTypeMismatch_claim_only(claim, usage) ==
    claim.resource_type # "storage"

StorageTypeMismatch(claim, usage) ==
    claim.resource_type # "storage" \/ usage.resource_type # "storage"

ComputeTypeMismatch(claim, usage) ==
    claim.resource_type # "compute" \/ usage.resource_type # "compute"

StorageResult(claim, usage) ==
    ValidationResult("storage",
                     _normalize_storage(claim.claimed_amount, claim.unit),
                     _normalize_storage(usage.actual_amount, usage.unit),
                     claim.cost)

ComputeResult(claim, usage) ==
    ValidationResult("compute",
                     _normalize_compute(claim.claimed_amount, claim.unit),
                     _normalize_compute(usage.actual_amount, usage.unit),
                     claim.cost)

\* the last usage of the type instead of the first
LastUsage(usages, t, j) ==
    IF \E i \in j..Len(usages) : usages[i].resource_type = t
    THEN CHOOSE i \in j..Len(usages) :
            /\ usages[i].resource_type = t
            /\ \A i2 \in (i + 1)..Len(usages) : usages[i2].resource_type # t
    ELSE 0

\* next(u for u in usages if u.resource_type == t, None): the index, 0 for None
RECURSIVE FirstUsage(_, _, _)
FirstUsage(usages, t, j) ==
    IF j > Len(usages) THEN 0
    ELSE IF usages[j].resource_type = t THEN j
    ELSE FirstUsage(usages, t, j + 1)

\* the results list batch_validate builds, one validate call per matched claim
RECURSIVE BatchResults(_, _, _)
BatchResults(claims, usages, k) ==
    IF k > Len(claims) THEN <<>>
    ELSE LET claim == claims[k]
             j == FirstUsage(usages, claim.resource_type, 1)
             rest == BatchResults(claims, usages, k + 1)
         IN  IF j = 0 THEN rest
             ELSE IF claim.resource_type = "storage"
             THEN <<StorageResult(claim, usages[j])>> \o rest
             ELSE IF claim.resource_type = "compute"
             THEN <<ComputeResult(claim, usages[j])>> \o rest
             ELSE rest

RECURSIVE SumCost(_, _)
SumCost(results, k) ==
    IF k > Len(results) THEN RZero
    ELSE RAdd(results[k].discrepancy_cost, SumCost(results, k + 1))

CountStatus(results, st) == Cardinality({k \in 1..Len(results) : results[k].status = st})

_result_to_dict(result) ==
    [resource_type |-> result.resource_type,
     status |-> result.status,
     claimed |-> RRound(result.claimed, 10000),
     actual |-> RRound(result.actual, 10000),
     variance |-> RRound(result.variance, 10000),
     variance_percent |-> RRound(result.variance_percent, 100),
     is_over_billed |-> result.is_over_billed,
     is_under_billed |-> result.is_under_billed,
     discrepancy_cost |-> RRound(result.discrepancy_cost, 100),
     recommendations |-> result.recommendations,
     details |-> result.details]

\* the overall status with warnings ranked above discrepancies
OverallBatchStatus_warning_first(critical_count, discrepancy_count, warning_count) ==
    IF critical_count > 0 THEN "critical"
    ELSE IF warning_count > 0 THEN "warning"
    ELSE IF discrepancy_count > 0 THEN "discrepancy"
    ELSE "valid"

OverallBatchStatus(critical_count, discrepancy_count, warning_count) ==
    IF critical_count > 0 THEN "critical"
    ELSE IF discrepancy_count > 0 THEN "discrepancy"
    ELSE IF warning_count > 0 THEN "warning"
    ELSE "valid"

BatchSummary(results) ==
    LET critical_count == CountStatus(results, "critical")
        discrepancy_count == CountStatus(results, "discrepancy")
        warning_count == CountStatus(results, "warning")
        valid_count == CountStatus(results, "valid")
    IN  [total_resources_validated |-> Len(results),
         summary |-> [valid |-> valid_count,
                      warnings |-> warning_count,
                      discrepancies |-> discrepancy_count,
                      critical |-> critical_count,
                      total_discrepancy_cost |-> RRound(SumCost(results, 1), 100)],
         results |-> [k \in 1..Len(results) |-> _result_to_dict(results[k])],
         overall_status |->
            OverallBatchStatus(critical_count, discrepancy_count, warning_count)]

(***************************************************************************)
(* The records the caller passes to the validator.                         *)
(***************************************************************************)
Tolerances == {5, 10}

Costs == {0, 23}

StorageClaimed == {<<100, "GB">>, <<1, "TB">>, <<0, "GB">>}

StorageActual ==
    {<<100, "GB">>, <<96, "Gb">>, <<95, "GB">>, <<105, "GB">>, <<90, "GB">>,
     <<76, "GB">>, <<75, "GB">>, <<126, "GB">>, <<1024, "GB">>, <<102400, "MB">>,
     <<99614720, "KB">>, <<105, "blocks">>, <<0, "GB">>}

ComputeClaimed == {<<500, "CPU-hours">>, <<60, "CPU-Minutes">>}

ComputeActual ==
    {<<500, "CPU-hours">>, <<525, "CPU-hours">>, <<3600, "CPU-seconds">>,
     <<1, "vCPU-hours">>, <<57, "cpu_minutes">>, <<450, "core-hours">>}

Claims ==
    {ResourceClaim("storage", q[1], q[2], c) : q \in StorageClaimed, c \in Costs}
    \cup {ResourceClaim("compute", q[1], q[2], 48) : q \in ComputeClaimed}
    \cup {ResourceClaim("bandwidth", 100, "GB", 9)}

Usages ==
    {ResourceUsage("storage", q[1], q[2]) : q \in StorageActual}
    \cup {ResourceUsage("compute", q[1], q[2]) : q \in ComputeActual}
    \cup {ResourceUsage("bandwidth", 100, "GB")}

\* the records used where calls are chained on one validator
HistClaims ==
    {ResourceClaim("storage", 100, "GB", 23), ResourceClaim("compute", 500, "CPU-hours", 48),
     ResourceClaim("bandwidth", 100, "GB", 9)}

HistUsages ==
    {ResourceUsage("storage", 100, "GB"), ResourceUsage("storage", 90, "GB"),
     ResourceUsage("compute", 525, "CPU-hours"), ResourceUsage("bandwidth", 100, "GB")}

\* the usage lists handed to batch_validate
BatchUsages ==
    {<<>>,
     <<ResourceUsage("storage", 90, "GB"), ResourceUsage("storage", 100, "GB"),
       ResourceUsage("compute", 525, "CPU-hours")>>,
     <<ResourceUsage("compute", 525, "CPU-hours"), ResourceUsage("storage", 100, "GB"),
       ResourceUsage("storage", 90, "GB")>>,
     <<ResourceUsage("storage", 60, "GB"), ResourceUsage("compute", 500, "CPU-hours")>>,
     <<ResourceUsage("bandwidth", 100, "GB"), ResourceUsage("compute", 450, "CPU-hours"),
       ResourceUsage("compute", 500, "CPU-hours")>>}

(***************************************************************************)
(* src/micro_macro_analyzer.py                                             *)
(***************************************************************************)
\* int(a): truncation toward zero
RTrunc(a) == IF a.i < 0 /\ a.n # 0 THEN a.i + 1 ELSE a.i

\* math.ceil(a)
RCeil(a) == IF a.n = 0 THEN a.i ELSE a.i + 1

\* math.ceil(a / q) for an integer q > 0, without forming a.d * q
RCeilDiv(a, q) ==
    IF a.i % q = 0 /\ a.n = 0 THEN a.i \div q ELSE (a.i \div q) + 1

BASE_EFFICIENCY == Frac(100, 100)
SCALE_100_EFFICIENCY == Frac(95, 100)
SCALE_1K_EFFICIENCY == Frac(90, 100)
SCALE_10K_EFFICIENCY == Frac(85, 100)
SCALE_100K_EFFICIENCY == Frac(80, 100)
SCALE_1M_EFFICIENCY == Frac(75, 100)
SCALE_10M_EFFICIENCY == Frac(70, 100)

STORAGE_COST_PER_GB == Frac(23, 1000)
COMPUTE_COST_PER_HOUR == Frac(96, 1000)
BANDWIDTH_COST_PER_GB == Frac(9, 100)
API_COST_PER_1K_CALLS == Frac(1, 100)
AI_TOKEN_COST_PER_1M == RInt(10)

UserResourceMetrics(user_id, storage_gb, compute_hours, bandwidth_gb, api_calls, ai_inference_tokens, cost_per_month, tier, active_days) ==
    [user_id |-> user_id,
     storage_gb |-> storage_gb,
     compute_hours |-> compute_hours,
     bandwidth_gb |-> bandwidth_gb,
     api_calls |-> api_calls,
     ai_inference_tokens |-> ai_inference_tokens,
     cost_per_month |-> cost_per_month,
     tier |-> tier,
     active_days |-> active_days]

RECURSIVE SumField(_, _, _)
SumField(samples, f, k) ==
    IF k > Len(samples) THEN RZero
    ELSE RAdd(IF f \in {"api_calls", "ai_inference_tokens", "active_days"}
              THEN RInt(samples[k][f]) ELSE samples[k][f],
              SumField(samples, f, k + 1))

TierCount(samples, tier) == Cardinality({k \in 1..Len(samples) : samples[k].tier = tier})

\* max(tier_counts, key=tier_counts.get): the first tier, in order of first
\* appearance, whose count is the largest
MostCommonTier(samples) ==
    LET best == CHOOSE k \in 1..Len(samples) :
                    /\ \A j \in 1..Len(samples) :
                          TierCount(samples, samples[j].tier) <= TierCount(samples, samples[k].tier)
                    /\ \A j \in 1..(k - 1) :
                          TierCount(samples, samples[j].tier) < TierCount(samples, samples[k].tier)
    IN  samples[best].tier

calculate_average_user_profile(samples) ==
    IF samples = <<>>
    THEN UserResourceMetrics("average", RZero, RZero, RZero, 0, 0, RZero, "unknown", 0)
    ELSE LET count == Len(samples)
             avg(f) == RDiv(SumField(samples, f, 1), RInt(count))
         IN  UserResourceMetrics("average_profile",
                                 avg("storage_gb"),
                                 avg("compute_hours"),
                                 avg("bandwidth_gb"),
                                 RTrunc(avg("api_calls")),
                                 RTrunc(avg("ai_inference_tokens")),
                                 avg("cost_per_month"),
                                 MostCommonTier(samples),
                                 RTrunc(avg("active_days")))

\* _get_scale_efficiency with the 10K and 100K coefficients exchanged
_get_scale_efficiency_swapped(user_count) ==
    IF user_count >= 10000000 THEN <<"ten_million_users", SCALE_10M_EFFICIENCY>>
    ELSE IF user_count >= 1000000 THEN <<"million_users", SCALE_1M_EFFICIENCY>>
    ELSE IF user_count >= 100000 THEN <<"hundred_thousand_users", SCALE_10K_EFFICIENCY>>
    ELSE IF user_count >= 10000 THEN <<"ten_thousand_users", SCALE_100K_EFFICIENCY>>
    ELSE IF user_count >= 1000 THEN <<"thousand_users", SCALE_1K_EFFICIENCY>>
    ELSE IF user_count >= 100 THEN <<"hundred_users", SCALE_100_EFFICIENCY>>
    ELSE <<"single_user", BASE_EFFICIENCY>>

\* _get_scale_efficiency with strict comparisons
_get_scale_efficiency_strict(user_count) ==
    IF user_count > 10000000 THEN <<"ten_million_users", SCALE_10M_EFFICIENCY>>
    ELSE IF user_count > 1000000 THEN <<"million_users", SCALE_1M_EFFICIENCY>>
    ELSE IF user_count > 100000 THEN <<"hundred_thousand_users", SCALE_100K_EFFICIENCY>>
    ELSE IF user_count > 10000 THEN <<"ten_thousand_users", SCALE_10K_EFFICIENCY>>
    ELSE IF user_count > 1000 THEN <<"thousand_users", SCALE_1K_EFFICIENCY>>
    ELSE IF user_count > 100 THEN <<"hundred_users", SCALE_100_EFFICIENCY>>
    ELSE <<"single_user", BASE_EFFICIENCY>>

_get_scale_efficiency(user_count) ==
    IF user_count >= 10000000 THEN <<"ten_million_users", SCALE_10M_EFFICIENCY>>
    ELSE IF user_count >= 1000000 THEN <<"million_users", SCALE_1M_EFFICIENCY>>
    ELSE IF user_count >= 100000 THEN <<"hundred_thousand_users", SCALE_100K_EFFICIENCY>>
    ELSE IF user_count >= 10000 THEN <<"ten_thousand_users", SCALE_10K_EFFICIENCY>>
    ELSE IF user_count >= 1000 THEN <<"thousand_users", SCALE_1K_EFFICIENCY>>
    ELSE IF user_count >= 100 THEN <<"hundred_users", SCALE_100_EFFICIENCY>>
    ELSE <<"single_user", BASE_EFFICIENCY>>

_calculate_infrastructure_requirements(storage_gb, compute_hours, bandwidth_gb, api_calls) ==
    LET storage_servers == RCeilDiv(storage_gb, 10000)
        concurrent_cpus == RCeilDiv(compute_hours, 730)
        compute_instances == RCeilDiv(RInt(concurrent_cpus), 4)
        api_rps == Frac(api_calls, 30 * 24 * 3600)
        api_instances == RCeilDiv(api_rps, 1000)
        db_size_gb == RMul(storage_gb, Frac(1, 10))
        db_instances == RCeilDiv(db_size_gb, 1000)
        load_balancers == IF compute_instances > 1 \/ api_instances > 1 THEN 1 ELSE 0
    IN  [storage_nodes |-> storage_servers,
         storage_capacity_tb |-> RRound(RScale(storage_gb, 1, 1024), 100),
         compute_instances |-> compute_instances,
         total_vcpus |-> concurrent_cpus,
         api_instances |-> api_instances,
         estimated_api_rps |-> RRound(api_rps, 100),
         database_instances |-> db_instances,
         database_size_gb |-> RRound(db_size_gb, 100),
         load_balancers |-> load_balancers,
         cdn_required |-> RLt(RInt(10000), bandwidth_gb),
         caching_layer_required |-> api_calls > 10000000]

\* the recommendation templates, named by their first words
_generate_scale_recommendations(scale_level, monthly_cost, infrastructure) ==
    (IF scale_level \in {"single_user", "hundred_users"}
     THEN <<"At this scale, focus on product-market fit", "Use managed services">>
     ELSE IF scale_level = "thousand_users"
     THEN <<"Start implementing basic caching", "Monitor usage patterns",
            "Consider reserved instances">>
     ELSE IF scale_level = "ten_thousand_users"
     THEN <<"Implement CDN for static content", "Use auto-scaling groups",
            "Establish database read replicas">>
     ELSE IF scale_level = "hundred_thousand_users"
     THEN <<"Implement multi-region deployment", "Use dedicated cache clusters",
            "Negotiate enterprise pricing", "Implement comprehensive monitoring">>
     ELSE IF scale_level \in {"million_users", "ten_million_users"}
     THEN <<"CRITICAL: Enterprise-grade architecture required", "Implement microservices",
            "Use database sharding", "Establish dedicated SRE team",
            "Implement sophisticated cost optimization", "Consider hybrid or multi-cloud">>
     ELSE <<>>)
    \o (IF RLt(RInt(100000), monthly_cost) THEN <<"HIGH COST ALERT">> ELSE <<>>)
    \o (IF infrastructure.cdn_required THEN <<"Implement CDN to reduce bandwidth costs">> ELSE <<>>)
    \o (IF infrastructure.caching_layer_required
        THEN <<"Deploy distributed caching layer">> ELSE <<>>)
    \o (IF infrastructure.compute_instances > 50
        THEN <<"Consider containerization (Kubernetes)">> ELSE <<>>)

\* the ScaleProjection that project_to_scale builds from the resolved base profile
ScaleProjection(target_user_count, base_metrics) ==
    LET se == _get_scale_efficiency(target_user_count)
        scale_level == se[1]
        efficiency == se[2]
        base_storage == RScale(base_metrics.storage_gb, target_user_count, 1)
        base_compute == RScale(base_metrics.compute_hours, target_user_count, 1)
        base_bandwidth == RScale(base_metrics.bandwidth_gb, target_user_count, 1)
        base_api_calls == base_metrics.api_calls * target_user_count
        base_ai_tokens == base_metrics.ai_inference_tokens * target_user_count
        total_storage == RMul(base_storage, efficiency)
        total_compute == RMul(base_compute, efficiency)
        total_bandwidth == RMul(base_bandwidth, efficiency)
        total_api_calls == RTrunc(RMul(RInt(base_api_calls), efficiency))
        total_ai_tokens == RTrunc(RMul(RInt(base_ai_tokens), efficiency))
        storage_cost == RMul(total_storage, STORAGE_COST_PER_GB)
        compute_cost == RMul(total_compute, COMPUTE_COST_PER_HOUR)
        bandwidth_cost == RMul(total_bandwidth, BANDWIDTH_COST_PER_GB)
        api_cost == RMul(Frac(total_api_calls, 1000), API_COST_PER_1K_CALLS)
        ai_cost == RMul(Frac(total_ai_tokens, 1000000), AI_TOKEN_COST_PER_1M)
        monthly_cost ==
            RAdd(RAdd(RAdd(RAdd(storage_cost, compute_cost), bandwidth_cost), api_cost), ai_cost)
        annual_cost == RScale(monthly_cost, 12, 1)
        infrastructure ==
            _calculate_infrastructure_requirements(total_storage, total_compute,
                                                   total_bandwidth, total_api_calls)
    IN  [scale_level |-> scale_level,
         user_count |-> target_user_count,
         total_storage_gb |-> RRound(total_storage, 100),
         total_storage_tb |-> RRound(RScale(total_storage, 1, 1024), 100),
         total_compute_hours |-> RRound(total_compute, 100),
         total_bandwidth_gb |-> RRound(total_bandwidth, 100),
         total_bandwidth_tb |-> RRound(RScale(total_bandwidth, 1, 1024), 100),
         total_api_calls |-> total_api_calls,
         total_ai_tokens |-> total_ai_tokens,
         monthly_cost |-> RRound(monthly_cost, 100),
         annual_cost |-> RRound(annual_cost, 100),
         infrastructure_requirements |-> infrastructure,
         scaling_efficiency |-> efficiency,
         recommendations |->
            _generate_scale_recommendations(scale_level, monthly_cost, infrastructure)]

\* base_metrics is Optional: <<>> stands for None, <<m>> for the metrics m
ResolveBase(samples, base_metrics) ==
    IF base_metrics = <<>> THEN calculate_average_user_profile(samples) ELSE base_metrics[1]

\* the scale targets without the largest one
scale_targets_short == <<1, 100, 1000, 10000, 100000, 1000000>>

scale_targets == <<1, 100, 1000, 10000, 100000, 1000000, 10000000>>

\* the projections project_multiple_scales appends, one project_to_scale per
\* target; each call resolves the base profile from the samples again
MultipleScales(samples, base_metrics) ==
    [k \in 1..Len(scale_targets) |->
        ScaleProjection(scale_targets[k], ResolveBase(samples, base_metrics))]

SeqsUpTo(S, n) == UNION {[1..m -> S] : m \in 0..n}

(***************************************************************************)
(* src/performance_analyzer.py (the recommendation lists of the analyses   *)
(* are left out of the modelled payloads)                                  *)
(***************************************************************************)
EXCELLENT_LATENCY_P95 == 100
GOOD_LATENCY_P95 == 300
ACCEPTABLE_LATENCY_P95 == 1000
DEGRADED_LATENCY_P95 == 3000

EXCELLENT_ERROR_RATE == Frac(1, 1000)
GOOD_ERROR_RATE == Frac(1, 100)
ACCEPTABLE_ERROR_RATE == Frac(5, 100)

HEALTHY_CPU_THRESHOLD == 70
WARNING_CPU_THRESHOLD == 85
CRITICAL_CPU_THRESHOLD == 95

LatencyMetrics(p50_ms, p95_ms, p99_ms, min_ms, max_ms, avg_ms) ==
    [p50_ms |-> p50_ms, p95_ms |-> p95_ms, p99_ms |-> p99_ms,
     min_ms |-> min_ms, max_ms |-> max_ms, avg_ms |-> avg_ms]

ThroughputMetrics(requests_per_second, error_rate) ==
    [requests_per_second |-> requests_per_second, error_rate |-> error_rate]

ResourceUtilization(cpu_percent, memory_percent) ==
    [cpu_percent |-> cpu_percent, memory_percent |-> memory_percent]

LatencyAnalysis(metrics) ==
    LET status == IF metrics.p95_ms <= EXCELLENT_LATENCY_P95 THEN "excellent"
                  ELSE IF metrics.p95_ms <= GOOD_LATENCY_P95 THEN "good"
                  ELSE IF metrics.p95_ms <= ACCEPTABLE_LATENCY_P95 THEN "acceptable"
                  ELSE IF metrics.p95_ms <= DEGRADED_LATENCY_P95 THEN "degraded"
                  ELSE "critical"
        latency_range == metrics.max_ms - metrics.min_ms
        variability_ratio ==
            IF metrics.avg_ms > 0 THEN Frac(latency_range, metrics.avg_ms) ELSE RZero
        tail_ratio == IF metrics.p50_ms > 0 THEN Frac(metrics.p99_ms, metrics.p50_ms) ELSE RZero
    IN  [status |-> status,
         metrics |-> metrics,
         analysis |-> [variability_ratio |-> RRound(variability_ratio, 100),
                       has_long_tail |-> RLt(RInt(5), tail_ratio),
                       tail_ratio |-> RRound(tail_ratio, 100)]]

ThroughputAnalysis(metrics) ==
    LET status == IF RLe(metrics.error_rate, EXCELLENT_ERROR_RATE) THEN "excellent"
                  ELSE IF RLe(metrics.error_rate, GOOD_ERROR_RATE) THEN "good"
                  ELSE IF RLe(metrics.error_rate, ACCEPTABLE_ERROR_RATE) THEN "acceptable"
                  ELSE "critical"
        rps == RInt(metrics.requests_per_second)
        theoretical_max_rps ==
            IF RLt(metrics.error_rate, RInt(1))
            THEN RDiv(rps, RSub(RInt(1), metrics.error_rate))
            ELSE rps
        capacity_utilization ==
            IF RSign(theoretical_max_rps) > 0
            THEN RScale(RDiv(rps, theoretical_max_rps), 100, 1)
            ELSE RZero
    IN  [status |-> status,
         metrics |-> [requests_per_second |-> metrics.requests_per_second,
                      error_rate |-> RRound(RScale(metrics.error_rate, 100, 1), 10000)],
         analysis |-> [estimated_max_rps |-> RRound(theoretical_max_rps, 100),
                       capacity_utilization_percent |-> RRound(capacity_utilization, 100)]]

UtilizationStatus(percent) ==
    IF percent < HEALTHY_CPU_THRESHOLD THEN "good"
    ELSE IF percent < WARNING_CPU_THRESHOLD THEN "acceptable"
    ELSE IF percent < CRITICAL_CPU_THRESHOLD THEN "degraded"
    ELSE "critical"

UtilizationAnalysis(utilization) ==
    [cpu |-> [status |-> UtilizationStatus(utilization.cpu_percent),
              utilization_percent |-> utilization.cpu_percent],
     memory |-> [status |-> UtilizationStatus(utilization.memory_percent),
                 utilization_percent |-> utilization.memory_percent]]

LoadTestResult(concurrent_users, requests_per_second, avg_response_time_ms) ==
    [concurrent_users |-> concurrent_users,
     requests_per_second |-> requests_per_second,
     avg_response_time_ms |-> avg_response_time_ms]

\* sorted(load_tests, key=lambda t: t.concurrent_users): a stable sort
RECURSIVE InsertByConcurrentUsers(_, _)
InsertByConcurrentUsers(sorted, t) ==
    IF sorted = <<>> THEN <<t>>
    ELSE IF sorted[Len(sorted)].concurrent_users <= t.concurrent_users THEN Append(sorted, t)
    ELSE Append(InsertByConcurrentUsers(SubSeq(sorted, 1, Len(sorted) - 1), t),
                sorted[Len(sorted)])

RECURSIVE SortedByConcurrentUsers(_, _)
SortedByConcurrentUsers(load_tests, k) ==
    IF k = 0 THEN <<>>
    ELSE InsertByConcurrentUsers(SortedByConcurrentUsers(load_tests, k - 1), load_tests[k])

\* does analyze_scaling_efficiency divide by a concurrent_users of zero
ScalingDividesByZero(load_tests) ==
    /\ Len(load_tests) >= 2
    /\ LET sorted_tests == SortedByConcurrentUsers(load_tests, Len(load_tests))
       IN  \E k \in 1..(Len(sorted_tests) - 1) : sorted_tests[k].concurrent_users = 0

\* one entry of scaling_metrics, for two adjacent load tests
ScalingMetric(prev, curr) ==
    LET user_ratio == Frac(curr.concurrent_users, prev.concurrent_users)
        throughput_ratio ==
            IF prev.requests_per_second > 0
            THEN Frac(curr.requests_per_second, prev.requests_per_second)
            ELSE RZero
        latency_ratio ==
            IF prev.avg_response_time_ms > 0
            THEN Frac(curr.avg_response_time_ms, prev.avg_response_time_ms)
            ELSE RZero
        throughput_efficiency ==
            IF RSign(user_ratio) > 0
            THEN RScale(RDiv(throughput_ratio, user_ratio), 100, 1)
            ELSE RZero
        latency_degradation ==
            IF RSign(latency_ratio) > 0
            THEN RScale(RSub(latency_ratio, RInt(1)), 100, 1)
            ELSE RZero
        scaling_score == RSub(throughput_efficiency, RScale(latency_degradation, 1, 2))
    IN  [from_users |-> prev.concurrent_users,
         to_users |-> curr.concurrent_users,
         user_increase_ratio |-> RRound(user_ratio, 100),
         throughput_increase_ratio |-> RRound(throughput_ratio, 100),
         latency_increase_ratio |-> RRound(latency_ratio, 100),
         throughput_efficiency_percent |-> RRound(throughput_efficiency, 100),
         latency_degradation_percent |-> RRound(latency_degradation, 100),
         scaling_score |-> RRound(scaling_score, 100)]

RECURSIVE SumScores(_, _)
SumScores(scaling_metrics, k) ==
    IF k > Len(scaling_metrics) THEN RZero
    ELSE RAdd(scaling_metrics[k].scaling_score, SumScores(scaling_metrics, k + 1))

\* the payload of analyze_scaling_efficiency when no division fails
ScalingAnalysis(load_tests) ==
    IF Len(load_tests) < 2
    THEN [error |-> "Need at least 2 load test results for scaling analysis",
          timestamp |-> "now"]
    ELSE LET sorted_tests == SortedByConcurrentUsers(load_tests, Len(load_tests))
             scaling_metrics == [k \in 1..(Len(sorted_tests) - 1) |->
                                    ScalingMetric(sorted_tests[k], sorted_tests[k + 1])]
             avg_scaling_score ==
                 RScale(SumScores(scaling_metrics, 1), 1, Len(scaling_metrics))
             scaling_status ==
                 IF RLe(RInt(90), avg_scaling_score) THEN "excellent"
                 ELSE IF RLe(RInt(75), avg_scaling_score) THEN "good"
                 ELSE IF RLe(RInt(60), avg_scaling_score) THEN "acceptable"
                 ELSE IF RLe(RInt(40), avg_scaling_score) THEN "degraded"
                 ELSE "critical"
         IN  [status |-> scaling_status,
              average_scaling_score |-> RRound(avg_scaling_score, 100),
              scaling_metrics |-> scaling_metrics,
              load_tests_analyzed |-> Len(sorted_tests)]

\* values[-lookback_periods:]
Recent(values, lookback_periods) ==
    IF lookback_periods = 0 \/ lookback_periods >= Len(values) THEN values
    ELSE SubSeq(values, Len(values) - lookback_periods + 1, Len(values))

RECURSIVE SumInts(_, _, _)
SumInts(values, from, to) ==
    IF from > to THEN 0 ELSE values[from] + SumInts(values, from + 1, to)

\* _calculate_trend on a list of integer samples
_calculate_trend(values) ==
    IF Len(values) < 2 THEN [direction |-> "insufficient_data", change_percent |-> RZero]
    ELSE LET mid == Len(values) \div 2
             first_half_avg == Frac(SumInts(values, 1, mid), mid)
             second_half_avg == Frac(SumInts(values, mid + 1, Len(values)), Len(values) - mid)
             change == RSub(second_half_avg, first_half_avg)
             change_percent ==
                 IF RSign(first_half_avg) > 0
                 THEN RScale(RDiv(change, first_half_avg), 100, 1)
                 ELSE RZero
         IN  [direction |-> IF RLt(RAbs(change_percent), RInt(5)) THEN "stable"
                            ELSE IF RSign(change_percent) > 0 THEN "increasing"
                            ELSE "decreasing",
              change_percent |-> RRound(change_percent, 100)]

\* calculate_performance_trends over the given histories (the throughput
\* trends are modelled by their rps trend)
PerformanceTrends(latencies, throughputs, lookback_periods) ==
    IF Len(latencies) < 2
    THEN [error |-> "Insufficient data for trend analysis", timestamp |-> "now"]
    ELSE LET recent_latency == Recent(latencies, lookback_periods)
             recent_throughput == Recent(throughputs, lookback_periods)
         IN  [latency_trends |->
                 [p95_trend |-> _calculate_trend([k \in 1..Len(recent_latency) |->
                                                     recent_latency[k].p95_ms]),
                  avg_trend |-> _calculate_trend([k \in 1..Len(recent_latency) |->
                                                     recent_latency[k].avg_ms]),
                  periods_analyzed |-> Len(recent_latency)],
              throughput_trends |->
                 IF Len(throughputs) >= 2
                 THEN <<_calculate_trend([k \in 1..Len(recent_throughput) |->
                                             recent_throughput[k].requests_per_second])>>
                 ELSE <<>>]

\* _generate_performance_summary: the overall status of the statuses collected
\* from the latency and throughput sections of the report
OverallStatus(statuses) ==
    IF statuses = {} THEN "unknown"
    ELSE IF "critical" \in statuses THEN "critical"
    ELSE IF "degraded" \in statuses THEN "degraded"
    ELSE IF "acceptable" \in statuses THEN "acceptable"
    ELSE IF "good" \in statuses THEN "good"
    ELSE "excellent"

(***************************************************************************)
(* src/benchmarking.py (the recommendation lists are left out)             *)
(***************************************************************************)
Benchmark(name, category, value) == [name |-> name, category |-> category, value |-> value]

INDUSTRY_STANDARDS ==
    [storage_cost_aws_s3_standard |-> Benchmark("AWS S3 Standard Storage", "storage", Frac(23, 1000)),
     storage_cost_aws_s3_ia |-> Benchmark("AWS S3 Infrequent Access", "storage", Frac(125, 10000)),
     storage_cost_gcp_standard |-> Benchmark("GCP Cloud Storage Standard", "storage", Frac(20, 1000)),
     compute_cost_aws_t3_medium |-> Benchmark("AWS t3.medium", "compute", Frac(416, 10000)),
     compute_cost_aws_c5_large |-> Benchmark("AWS c5.large", "compute", Frac(85, 1000)),
     compute_cost_gcp_n1_standard_2 |-> Benchmark("GCP n1-standard-2", "compute", Frac(95, 1000)),
     latency_p95_excellent |-> Benchmark("Excellent P95 Latency", "latency", RInt(100)),
     latency_p95_good |-> Benchmark("Good P95 Latency", "latency", RInt(300)),
     latency_p99_excellent |-> Benchmark("Excellent P99 Latency", "latency", RInt(200)),
     throughput_per_cpu_web |-> Benchmark("Web Service Throughput", "throughput", RInt(100)),
     throughput_per_cpu_api |-> Benchmark("API Service Throughput", "throughput", RInt(500)),
     cpu_utilization_target |-> Benchmark("Target CPU Utilization", "efficiency", RInt(70)),
     error_rate_acceptable |-> Benchmark("Acceptable Error Rate", "efficiency", RInt(1))]

\* a variant whose higher-is-better rule already exceeds above +10%
_determine_comparison_result_exceeds_at_10(category, variance_percent) ==
    IF category = "cost"
    THEN IF RLt(variance_percent, RInt(-20)) THEN "exceeds_standard"
         ELSE IF RLt(variance_percent, RInt(0)) THEN "meets_standard"
         ELSE IF RLt(variance_percent, RInt(20)) THEN "below_standard"
         ELSE "significantly_below"
    ELSE IF category = "latency"
    THEN IF RLt(variance_percent, RInt(-20)) THEN "exceeds_standard"
         ELSE IF RLt(variance_percent, RInt(10)) THEN "meets_standard"
         ELSE IF RLt(variance_percent, RInt(50)) THEN "below_standard"
         ELSE "significantly_below"
    ELSE IF category \in {"throughput", "efficiency"}
    THEN IF RLt(RInt(10), variance_percent) THEN "exceeds_standard"
         ELSE IF RLt(RInt(-10), variance_percent) THEN "meets_standard"
         ELSE IF RLt(RInt(-30), variance_percent) THEN "below_standard"
         ELSE "significantly_below"
    ELSE IF RLt(RAbs(variance_percent), RInt(10)) THEN "meets_standard"
         ELSE IF RLt(RAbs(variance_percent), RInt(30)) THEN "below_standard"
         ELSE "significantly_below"

_determine_comparison_result(category, variance_percent) ==
    IF category = "cost"
    THEN IF RLt(variance_percent, RInt(-20)) THEN "exceeds_standard"
         ELSE IF RLt(variance_percent, RInt(0)) THEN "meets_standard"
         ELSE IF RLt(variance_percent, RInt(20)) THEN "below_standard"
         ELSE "significantly_below"
    ELSE IF category = "latency"
    THEN IF RLt(variance_percent, RInt(-20)) THEN "exceeds_standard"
         ELSE IF RLt(variance_percent, RInt(10)) THEN "meets_standard"
         ELSE IF RLt(variance_percent, RInt(50)) THEN "below_standard"
         ELSE "significantly_below"
    ELSE IF category \in {"throughput", "efficiency"}
    THEN IF RLt(RInt(20), variance_percent) THEN "exceeds_standard"
         ELSE IF RLt(RInt(-10), variance_percent) THEN "meets_standard"
         ELSE IF RLt(RInt(-30), variance_percent) THEN "below_standard"
         ELSE "significantly_below"
    ELSE IF RLt(RAbs(variance_percent), RInt(10)) THEN "meets_standard"
         ELSE IF RLt(RAbs(variance_percent), RInt(30)) THEN "below_standard"
         ELSE "significantly_below"

_compare_values(actual_value, benchmark) ==
    LET variance == RSub(actual_value, benchmark.value)
        variance_percent ==
            IF RSign(benchmark.value) # 0
            THEN RScale(RDiv(variance, benchmark.value), 100, 1)
            ELSE RZero
    IN  [benchmark_name |-> benchmark.name,
         category |-> benchmark.category,
         actual_value |-> actual_value,
         benchmark_value |-> benchmark.value,
         variance |-> variance,
         variance_percent |-> variance_percent,
         result |-> _determine_comparison_result(benchmark.category, variance_percent)]

\* custom_baselines is a dict kept in insertion order: a sequence of
\* <<name, Benchmark>> pairs with distinct names
HasBaseline(baselines, name) == \E k \in 1..Len(baselines) : baselines[k][1] = name

GetBaseline(baselines, name) ==
    baselines[CHOOSE k \in 1..Len(baselines) : baselines[k][1] = name][2]

SetBaseline(baselines, name, baseline) ==
    IF HasBaseline(baselines, name)
    THEN [k \in 1..Len(baselines) |->
             IF baselines[k][1] = name THEN <<name, baseline>> ELSE baselines[k]]
    ELSE Append(baselines, <<name, baseline>>)

\* a variant that compares a metric mapped to an unknown key against the first
\* standard of the table instead of skipping it
RECURSIVE BatchComparisons_no_skip(_, _, _)
BatchComparisons_no_skip(metrics, standard_mappings, k) ==
    IF k > Len(metrics) THEN <<>>
    ELSE LET rest == BatchComparisons_no_skip(metrics, standard_mappings, k + 1)
             keys == {m[2] : m \in {mm \in standard_mappings : mm[1] = metrics[k][1]}}
         IN  IF keys = {} THEN rest
             ELSE LET standard_key == CHOOSE key \in keys : TRUE
                  IN  IF standard_key \in DOMAIN INDUSTRY_STANDARDS
                      THEN <<_compare_values(metrics[k][2], INDUSTRY_STANDARDS[standard_key])>>
                           \o rest
                      ELSE <<_compare_values(metrics[k][2],
                                             INDUSTRY_STANDARDS.storage_cost_aws_s3_standard)>>
                           \o rest

\* the comparisons batch_compare makes: metrics is a dict in insertion order,
\* a sequence of <<metric_name, actual_value>>; standard_mappings a set of
\* <<metric_name, standard_key>> pairs with distinct metric names
RECURSIVE BatchComparisons(_, _, _)
BatchComparisons(metrics, standard_mappings, k) ==
    IF k > Len(metrics) THEN <<>>
    ELSE LET rest == BatchComparisons(metrics, standard_mappings, k + 1)
             keys == {m[2] : m \in {mm \in standard_mappings : mm[1] = metrics[k][1]}}
         IN  IF keys = {} THEN rest
             ELSE LET standard_key == CHOOSE key \in keys : TRUE
                  IN  IF standard_key \in DOMAIN INDUSTRY_STANDARDS
                      THEN <<_compare_values(metrics[k][2], INDUSTRY_STANDARDS[standard_key])>>
                           \o rest
                      ELSE rest

\* _comparison_to_dict: the numbers rounded for output (unit, recommendations and
\* timestamp are left out)
_comparison_to_dict(comparison) ==
    [benchmark_name |-> comparison.benchmark_name,
     category |-> comparison.category,
     actual_value |-> RRound(comparison.actual_value, 10000),
     benchmark_value |-> RRound(comparison.benchmark_value, 10000),
     variance |-> RRound(comparison.variance, 10000),
     variance_percent |-> RRound(comparison.variance_percent, 100),
     result |-> comparison.result]

CountResult(comparisons, r) ==
    Cardinality({k \in 1..Len(comparisons) : comparisons[k].result = r})

\* a variant whose overall_status looks for a met standard first
BatchCompareSummary_good_first(comparisons) ==
    LET exceeds_count == CountResult(comparisons, "exceeds_standard")
        meets_count == CountResult(comparisons, "meets_standard")
        below_count == CountResult(comparisons, "below_standard")
        significantly_below_count == CountResult(comparisons, "significantly_below")
    IN  [metrics_compared |-> Len(comparisons),
         summary |-> [exceeds_standard |-> exceeds_count,
                      meets_standard |-> meets_count,
                      below_standard |-> below_count,
                      significantly_below |-> significantly_below_count],
         comparisons |-> [k \in 1..Len(comparisons) |-> _comparison_to_dict(comparisons[k])],
         overall_status |->
            IF meets_count > 0 THEN "good"
            ELSE IF significantly_below_count > 0 THEN "critical"
            ELSE IF below_count > 0 THEN "warning"
            ELSE "excellent"]

BatchCompareSummary(comparisons) ==
    LET exceeds_count == CountResult(comparisons, "exceeds_standard")
        meets_count == CountResult(comparisons, "meets_standard")
        below_count == CountResult(comparisons, "below_standard")
        significantly_below_count == CountResult(comparisons, "significantly_below")
    IN  [metrics_compared |-> Len(comparisons),
         summary |-> [exceeds_standard |-> exceeds_count,
                      meets_standard |-> meets_count,
                      below_standard |-> below_count,
                      significantly_below |-> significantly_below_count],
         comparisons |-> [k \in 1..Len(comparisons) |-> _comparison_to_dict(comparisons[k])],
         overall_status |->
            IF significantly_below_count > 0 THEN "critical"
            ELSE IF below_count > 0 THEN "warning"
            ELSE IF meets_count > 0 THEN "good"
            ELSE "excellent"]

(***************************************************************************)
(* The records the caller passes to the performance analyzer and to the    *)
(* benchmarking tool.                                                      *)
(***************************************************************************)
Latencies ==
    {LatencyMetrics(40, 90, 150, 10, 200, 50), LatencyMetrics(100, 300, 600, 20, 5000, 120),
     LatencyMetrics(400, 3500, 4000, 100, 6000, 0)}

Throughputs ==
    {ThroughputMetrics(1000, Frac(1, 1000)), ThroughputMetrics(500, Frac(2, 100)),
     ThroughputMetrics(100, RInt(1))}

Utilizations == {ResourceUtilization(50, 69), ResourceUtilization(85, 95)}

\* the load test lists handed to analyze_scaling_efficiency
LoadTests ==
    {<<>>,
     <<LoadTestResult(10, 100, 50)>>,
     <<LoadTestResult(10, 100, 50), LoadTestResult(20, 200, 50)>>,
     <<LoadTestResult(40, 200, 400), LoadTestResult(10, 100, 50), LoadTestResult(20, 190, 55)>>,
     <<LoadTestResult(10, 0, 0), LoadTestResult(20, 190, 55)>>,
     <<LoadTestResult(10, 100, 50), LoadTestResult(0, 0, 0)>>,
     <<LoadTestResult(10, 100, 50), LoadTestResult(10, 200, 100)>>}

Lookbacks == {10, 1}

Categories == {"storage", "compute", "latency", "throughput", "cost", "efficiency"}

BaselineNames == {"team_cost"}

StandardKeys == {"latency_p95_good", "throughput_per_cpu_web", "no_such_standard"}

BaselineInputs == {<<"cost", RInt(100)>>, <<"throughput", RInt(0)>>}

ActualValues == {RInt(330), RInt(80)}

MetricNames == {"p95"}

BatchMetrics == SeqsUpTo({<<"p95", RInt(250)>>, <<"rps", RInt(60)>>}, MaxBatch)

BatchMappings ==
    {{<<"p95", "latency_p95_good">>},
     {<<"p95", "latency_p95_good">>, <<"rps", "no_such_standard">>},
     {<<"p95", "latency_p95_excellent">>, <<"rps", "throughput_per_cpu_web">>}}

\* one batch_compare call on a fresh tool: each metric at, around and away from
\* the thresholds of its standard's category
WideMetricValues ==
    {<<"storage_cost", Frac(2875, 100000)>>, <<"storage_cost", Frac(23, 1000)>>,
     <<"storage_cost", Frac(1725, 100000)>>,
     <<"rps", RInt(115)>>, <<"rps", RInt(120)>>, <<"rps", RInt(125)>>,
     <<"rps", RInt(95)>>, <<"rps", RInt(60)>>,
     <<"p95", RInt(250)>>, <<"p95", RInt(500)>>}

WideBatchMetrics == SeqsUpTo(WideMetricValues, 2)

WideBatchMappings ==
    {{<<"storage_cost", "storage_cost_aws_s3_standard">>, <<"rps", "throughput_per_cpu_web">>,
      <<"p95", "latency_p95_good">>},
     {<<"storage_cost", "storage_cost_aws_s3_standard">>, <<"rps", "no_such_standard">>},
     {<<"rps", "throughput_per_cpu_web">>},
     {}}

Call(op, args, raised, value) ==
    [op |-> op, args |-> args, raised |-> raised, value |-> value]

\* sorted(projections, key=lambda p: p.user_count): a stable sort
RECURSIVE InsertByUserCount(_, _)
InsertByUserCount(sorted, p) ==
    IF sorted = <<>> THEN <<p>>
    ELSE IF sorted[Len(sorted)].user_count <= p.user_count THEN Append(sorted, p)
    ELSE Append(InsertByUserCount(SubSeq(sorted, 1, Len(sorted) - 1), p), sorted[Len(sorted)])

RECURSIVE SortedByUserCount(_, _)
SortedByUserCount(ps, k) ==
    IF k = 0 THEN <<>>
    ELSE InsertByUserCount(SortedByUserCount(ps, k - 1), ps[k])

\* does _analyze_growth_trajectory divide by a user count of zero
GrowthDividesByZero(ps) ==
    /\ Len(ps) >= 2
    /\ LET sorted_projections == SortedByUserCount(ps, Len(ps))
       IN  \E i \in 2..Len(ps) : sorted_projections[i - 1].user_count = 0

HasUserCount(ps, n) == \E k \in 1..Len(ps) : ps[k].user_count = n

\* next(p for p in projections if p.user_count == n)
FirstWithUserCount(ps, n) ==
    ps[CHOOSE k \in 1..Len(ps) :
          /\ ps[k].user_count = n
          /\ \A j \in 1..(k - 1) : ps[j].user_count # n]

\* does _generate_executive_summary divide by thousand.monthly_cost * 1000 = 0
SummaryDividesByZero(ps) ==
    /\ HasUserCount(ps, 1000)
    /\ HasUserCount(ps, 1000000)
    /\ RSign(FirstWithUserCount(ps, 1000).monthly_cost) = 0

ProfileDict(avg_profile) ==
    [storage_gb |-> RRound(avg_profile.storage_gb, 10000),
     compute_hours |-> RRound(avg_profile.compute_hours, 10000),
     bandwidth_gb |-> RRound(avg_profile.bandwidth_gb, 10000),
     api_calls |-> avg_profile.api_calls,
     ai_tokens |-> avg_profile.ai_inference_tokens,
     cost_per_month |-> RRound(avg_profile.cost_per_month, 100),
     tier |-> avg_profile.tier,
     active_days |-> avg_profile.active_days]

ProjectionDict(p) ==
    [scale_level |-> p.scale_level,
     user_count |-> p.user_count,
     total_storage_tb |-> p.total_storage_tb,
     total_compute_hours |-> p.total_compute_hours,
     total_bandwidth_tb |-> p.total_bandwidth_tb,
     monthly_cost |-> p.monthly_cost,
     annual_cost |-> p.annual_cost,
     scaling_efficiency |-> p.scaling_efficiency,
     infrastructure |-> p.infrastructure_requirements,
     recommendations |-> p.recommendations]

\* the part of the report payload the model keeps: the sample size, the
\* average profile and the projections (growth_analysis and
\* executive_summary are modelled by whether computing them raises)
ScalingReport(samples, ps) ==
    [timestamp |-> "now",
     sample_size |-> Len(samples),
     average_user_profile |-> ProfileDict(calculate_average_user_profile(samples)),
     scale_projections |-> [k \in 1..Len(ps) |-> ProjectionDict(ps[k])]]

(***************************************************************************)
(* The records the caller passes to the micro-macro analyzer.              *)
(***************************************************************************)
Metrics(user_id, storage_gb, compute_hours, bandwidth_gb, api_calls, ai_tokens, tier) ==
    UserResourceMetrics(user_id, RInt(storage_gb), RInt(compute_hours), RInt(bandwidth_gb),
                        api_calls, ai_tokens, RInt(10), tier, 30)

\* target user counts around every bucket bound
TargetCounts ==
    {0, 1, 2, 99, 100, 101, 999, 1000, 9999, 10000, 99999, 100000,
     999999, 1000000, 9999999, 10000000, 10000001}

BaseProfiles ==
    {Metrics("base", s, c, b, a, t, "basic") :
        s \in {0, 1, 2}, c \in {0, 1}, b \in {0, 1}, a \in {0, 3}, t \in {0, 7}}

\* the records used where calls are chained on one analyzer
HistSamples == {Metrics("user_001", 1, 1, 1, 3, 7, "basic"), Metrics("user_002", 0, 0, 0, 0, 0, "free")}

HistTargets == {0, 1, 1000}

HistBases == {<<>>, <<Metrics("base", 2, 0, 1, 0, 0, "pro")>>}

(***************************************************************************)
(* ResourceValidator: the public methods.                                  *)
(***************************************************************************)
validate_storage(claim, usage) ==
    /\ self = "ResourceValidator"
    /\ Len(validation_history) < MaxHist
    /\ IF StorageTypeMismatch(claim, usage)
       THEN /\ ret' = Call("validate_storage", <<claim, usage>>, TRUE, "ValueError")
            /\ UNCHANGED validation_history
       ELSE /\ validation_history' = Append(validation_history, StorageResult(claim, usage))
            /\ ret' = Call("validate_storage", <<claim, usage>>, FALSE,
                           StorageResult(claim, usage))
    /\ UNCHANGED <<self, rpVars, tolerance_percent, mmVars, paVars, btVars>>

validate_compute(claim, usage) ==
    /\ self = "ResourceValidator"
    /\ Len(validation_history) < MaxHist
    /\ IF ComputeTypeMismatch(claim, usage)
       THEN /\ ret' = Call("validate_compute", <<claim, usage>>, TRUE, "ValueError")
            /\ UNCHANGED validation_history
       ELSE /\ validation_history' = Append(validation_history, ComputeResult(claim, usage))
            /\ ret' = Call("validate_compute", <<claim, usage>>, FALSE,
                           ComputeResult(claim, usage))
    /\ UNCHANGED <<self, rpVars, tolerance_percent, mmVars, paVars, btVars>>

batch_validate(claims, usages) ==
    /\ self = "ResourceValidator"
    /\ Len(validation_history) + Len(claims) <= MaxHist
    /\ LET results == BatchResults(claims, usages, 1) IN
       /\ validation_history' = validation_history \o results
       /\ ret' = Call("batch_validate", <<claims, usages>>, FALSE, BatchSummary(results))
    /\ UNCHANGED <<self, rpVars, tolerance_percent, mmVars, paVars, btVars>>

generate_validation_report(output_format) ==
    /\ self = "ResourceValidator"
    /\ ret' = Call("generate_validation_report", <<output_format>>, FALSE,
                   IF validation_history = <<>>
                   THEN [message |-> "No validation history available"]
                   ELSE [format |-> IF output_format = "json" THEN "json" ELSE "text",
                         total_validations |-> Len(validation_history),
                         validations |-> IF output_format = "json"
                                         THEN [k \in 1..Len(validation_history) |->
                                                 _result_to_dict(validation_history[k])]
                                         ELSE validation_history])
    /\ UNCHANGED <<self, rpVars, tolerance_percent, validation_history, mmVars, paVars, btVars>>

NextRV ==
    \/ \E claim \in HistClaims, usage \in HistUsages : validate_storage(claim, usage)
    \/ \E claim \in HistClaims, usage \in HistUsages : validate_compute(claim, usage)
    \/ \E claims \in SeqsUpTo(HistClaims, MaxBatch), usages \in BatchUsages :
          batch_validate(claims, usages)
    \/ \E output_format \in {"json", "text"} : generate_validation_report(output_format)

\* one validation of any claim against any usage on a fresh validator
NextValidate ==
    /\ ret.op = "__init__"
    /\ \/ \E claim \in Claims, usage \in Usages : validate_storage(claim, usage)
       \/ \E claim \in Claims, usage \in Usages : validate_compute(claim, usage)

(***************************************************************************)
(* MicroMacroAnalyzer: the public methods.                                 *)
(***************************************************************************)
\* add_user_sample keeping the newest sample only
add_user_sample_overwrite(metrics) ==
    /\ self = "MicroMacroAnalyzer"
    /\ Len(user_samples) < MaxHist
    /\ user_samples' = <<metrics>>
    /\ ret' = Call("add_user_sample", <<metrics>>, FALSE, "None")
    /\ UNCHANGED <<self, rpVars, projections, rvVars, paVars, btVars>>

add_user_sample(metrics) ==
    /\ self = "MicroMacroAnalyzer"
    /\ Len(user_samples) < MaxHist
    /\ user_samples' = Append(user_samples, metrics)
    /\ ret' = Call("add_user_sample", <<metrics>>, FALSE, "None")
    /\ UNCHANGED <<self, rpVars, projections, rvVars, paVars, btVars>>

average_user_profile ==
    /\ self = "MicroMacroAnalyzer"
    /\ ret' = Call("calculate_average_user_profile", <<>>, FALSE,
                   calculate_average_user_profile(user_samples))
    /\ UNCHANGED <<self, rpVars, mmVars, rvVars, paVars, btVars>>

project_to_scale(target_user_count, base_metrics) ==
    /\ self = "MicroMacroAnalyzer"
    /\ Len(projections) < MaxHist
    /\ LET projection ==
              ScaleProjection(target_user_count, ResolveBase(user_samples, base_metrics))
       IN  /\ projections' = Append(projections, projection)
           /\ ret' = Call("project_to_scale", <<target_user_count, base_metrics>>, FALSE,
                          projection)
    /\ UNCHANGED <<self, rpVars, user_samples, rvVars, paVars, btVars>>

project_multiple_scales(base_metrics) ==
    /\ self = "MicroMacroAnalyzer"
    /\ Len(projections) < MaxHist
    /\ LET ps == MultipleScales(user_samples, base_metrics)
       IN  /\ projections' = projections \o ps
           /\ ret' = Call("project_multiple_scales", <<base_metrics>>, FALSE, ps)
    /\ UNCHANGED <<self, rpVars, user_samples, rvVars, paVars, btVars>>

\* generate_scaling_report without the early return for an analyzer that
\* holds no samples
generate_scaling_report_unguarded ==
    /\ self = "MicroMacroAnalyzer"
    /\ LET ps == IF projections = <<>>
                 THEN MultipleScales(user_samples, <<>>)
                 ELSE projections
       IN  /\ projections' = ps
           /\ ret' = IF GrowthDividesByZero(ps) \/ SummaryDividesByZero(ps)
                     THEN Call("generate_scaling_report", <<>>, TRUE, "ZeroDivisionError")
                     ELSE Call("generate_scaling_report", <<>>, FALSE,
                               ScalingReport(user_samples, ps))
    /\ UNCHANGED <<self, rpVars, user_samples, rvVars, paVars, btVars>>

generate_scaling_report ==
    /\ self = "MicroMacroAnalyzer"
    /\ IF user_samples = <<>>
       THEN /\ ret' = Call("generate_scaling_report", <<>>, FALSE,
                           [error |-> "No user samples available for analysis",
                            timestamp |-> "now"])
            /\ UNCHANGED projections
       ELSE LET ps == IF projections = <<>>
                      THEN MultipleScales(user_samples, <<>>)
                      ELSE projections
            IN  /\ projections' = ps
                /\ ret' = IF GrowthDividesByZero(ps) \/ SummaryDividesByZero(ps)
                          THEN Call("generate_scaling_report", <<>>, TRUE, "ZeroDivisionError")
                          ELSE Call("generate_scaling_report", <<>>, FALSE,
                                    ScalingReport(user_samples, ps))
    /\ UNCHANGED <<self, rpVars, user_samples, rvVars, paVars, btVars>>

\* the calls made with the default base profile (base_metrics=None)
NextDefaultBase ==
    \/ \E metrics \in HistSamples : add_user_sample(metrics)
    \/ \E n \in HistTargets : project_to_scale(n, <<>>)
    \/ generate_scaling_report

NextMM ==
    \/ \E metrics \in HistSamples : add_user_sample(metrics)
    \/ average_user_profile
    \/ \E n \in HistTargets, base_metrics \in HistBases : project_to_scale(n, base_metrics)
    \/ \E base_metrics \in HistBases : project_multiple_scales(base_metrics)
    \/ generate_scaling_report

\* one projection of any base profile to any target on a fresh analyzer
NextProject ==
    /\ ret.op = "__init__"
    /\ \E n \in TargetCounts, base \in BaseProfiles : project_to_scale(n, <<base>>)

\* the base profile of the projections that are compared with each other
FixedBase == Metrics("base", 1, 1, 1, 3, 7, "basic")

\* projections of one base profile to any targets, chained on one analyzer
NextScales == \E n \in TargetCounts : project_to_scale(n, <<FixedBase>>)

(***************************************************************************)
(* PerformanceAnalyzer: the public methods.  No method stores into         *)
(* load_test_results.                                                      *)
(***************************************************************************)
analyze_latency(metrics) ==
    /\ self = "PerformanceAnalyzer"
    /\ Len(latency_history) < MaxHist
    /\ latency_history' = Append(latency_history, metrics)
    /\ ret' = Call("analyze_latency", <<metrics>>, FALSE, LatencyAnalysis(metrics))
    /\ UNCHANGED <<self, rpVars, throughput_history, load_test_results, rvVars, mmVars, btVars>>

analyze_throughput(metrics) ==
    /\ self = "PerformanceAnalyzer"
    /\ Len(throughput_history) < MaxHist
    /\ throughput_history' = Append(throughput_history, metrics)
    /\ ret' = Call("analyze_throughput", <<metrics>>, FALSE, ThroughputAnalysis(metrics))
    /\ UNCHANGED <<self, rpVars, latency_history, load_test_results, rvVars, mmVars, btVars>>

analyze_resource_utilization(utilization) ==
    /\ self = "PerformanceAnalyzer"
    /\ ret' = Call("analyze_resource_utilization", <<utilization>>, FALSE,
                   UtilizationAnalysis(utilization))
    /\ UNCHANGED <<self, rpVars, paVars, rvVars, mmVars, btVars>>

\* a variant that raises for a list too short to analyse
analyze_scaling_efficiency_raising(load_tests) ==
    /\ self = "PerformanceAnalyzer"
    /\ ret' = IF Len(load_tests) < 2
              THEN Call("analyze_scaling_efficiency", <<load_tests>>, TRUE, "ValueError")
              ELSE IF ScalingDividesByZero(load_tests)
              THEN Call("analyze_scaling_efficiency", <<load_tests>>, TRUE, "ZeroDivisionError")
              ELSE Call("analyze_scaling_efficiency", <<load_tests>>, FALSE,
                        ScalingAnalysis(load_tests))
    /\ UNCHANGED <<self, rpVars, paVars, rvVars, mmVars, btVars>>

analyze_scaling_efficiency(load_tests) ==
    /\ self = "PerformanceAnalyzer"
    /\ ret' = IF ScalingDividesByZero(load_tests)
              THEN Call("analyze_scaling_efficiency", <<load_tests>>, TRUE, "ZeroDivisionError")
              ELSE Call("analyze_scaling_efficiency", <<load_tests>>, FALSE,
                        ScalingAnalysis(load_tests))
    /\ UNCHANGED <<self, rpVars, paVars, rvVars, mmVars, btVars>>

calculate_performance_trends(lookback_periods) ==
    /\ self = "PerformanceAnalyzer"
    /\ ret' = Call("calculate_performance_trends", <<lookback_periods>>, FALSE,
                   PerformanceTrends(latency_history, throughput_history, lookback_periods))
    /\ UNCHANGED <<self, rpVars, paVars, rvVars, mmVars, btVars>>

\* generate_performance_report analyses the latest latency and throughput
\* samples through analyze_latency and analyze_throughput, which append them
\* to the histories once more; the trends are computed after that, and a
\* division by zero in the scaling section is raised after the appends
generate_performance_report ==
    /\ self = "PerformanceAnalyzer"
    /\ Len(latency_history) < MaxHist
    /\ Len(throughput_history) < MaxHist
    /\ LET lat == IF latency_history # <<>>
                  THEN Append(latency_history, latency_history[Len(latency_history)])
                  ELSE latency_history
           thr == IF throughput_history # <<>>
                  THEN Append(throughput_history, throughput_history[Len(throughput_history)])
                  ELSE throughput_history
           latency == IF latency_history # <<>>
                      THEN <<LatencyAnalysis(latency_history[Len(latency_history)])>>
                      ELSE <<>>
           throughput == IF throughput_history # <<>>
                         THEN <<ThroughputAnalysis(throughput_history[Len(throughput_history)])>>
                         ELSE <<>>
       IN  /\ latency_history' = lat
           /\ throughput_history' = thr
           /\ ret' = IF ScalingDividesByZero(load_test_results)
                     THEN Call("generate_performance_report", <<>>, TRUE, "ZeroDivisionError")
                     ELSE
                     Call("generate_performance_report", <<>>, FALSE,
                          [latency |-> latency,
                           throughput |-> throughput,
                           trends |-> IF Len(lat) >= 2
                                      THEN <<PerformanceTrends(lat, thr, 10)>>
                                      ELSE <<>>,
                           scaling |-> IF Len(load_test_results) >= 2
                                       THEN <<ScalingAnalysis(load_test_results)>>
                                       ELSE <<>>,
                           summary |->
                              [overall_status |->
                                  OverallStatus({latency[k].status : k \in 1..Len(latency)}
                                                \cup {throughput[k].status :
                                                         k \in 1..Len(throughput)})]])
    /\ UNCHANGED <<self, rpVars, load_test_results, rvVars, mmVars, btVars>>

ReportLatencies ==
    {LatencyMetrics(40, 90, 150, 10, 200, 50), LatencyMetrics(400, 3500, 4000, 100, 6000, 0)}

ReportThroughputs == {ThroughputMetrics(1000, Frac(1, 1000)), ThroughputMetrics(100, RInt(1))}

\* no method of PerformanceAnalyzer stores into load_test_results: the caller
\* that wants the scaling part of the report assigns the public attribute
store_load_test_results(load_tests) ==
    /\ self = "PerformanceAnalyzer"
    /\ load_test_results' = load_tests
    /\ ret' = Call("load_test_results =", <<"load_test_results", load_tests>>, FALSE, "None")
    /\ UNCHANGED <<self, rpVars, latency_history, throughput_history, rvVars, mmVars, btVars>>

StoredLoadTests ==
    {<<LoadTestResult(10, 100, 50), LoadTestResult(20, 200, 50)>>,
     <<LoadTestResult(10, 100, 50), LoadTestResult(100, 100, 500)>>,
     <<LoadTestResult(10, 100, 50), LoadTestResult(0, 0, 0)>>}

NextLoadTests ==
    \/ \E load_tests \in StoredLoadTests : store_load_test_results(load_tests)
    \/ \E metrics \in ReportLatencies : analyze_latency(metrics)
    \/ \E metrics \in ReportThroughputs : analyze_throughput(metrics)
    \/ generate_performance_report
    \/ \E load_tests \in LoadTests : analyze_scaling_efficiency(load_tests)

NextPA ==
    \/ \E metrics \in Latencies : analyze_latency(metrics)
    \/ \E metrics \in Throughputs : analyze_throughput(metrics)
    \/ \E utilization \in Utilizations : analyze_resource_utilization(utilization)
    \/ \E load_tests \in LoadTests : analyze_scaling_efficiency(load_tests)
    \/ \E lookback_periods \in Lookbacks : calculate_performance_trends(lookback_periods)
    \/ generate_performance_report

(***************************************************************************)
(* BenchmarkingTool: the public methods.                                   *)
(***************************************************************************)
add_custom_baseline(name, category, value) ==
    /\ self = "BenchmarkingTool"
    /\ Len(comparison_history) < MaxHist
    /\ custom_baselines' = SetBaseline(custom_baselines, name, Benchmark(name, category, value))
    /\ ret' = Call("add_custom_baseline", <<name, category, value>>, FALSE,
                   Benchmark(name, category, value))
    /\ UNCHANGED <<self, rpVars, comparison_history, rvVars, mmVars, paVars>>

compare_against_standard(metric_name, actual_value, standard_key) ==
    /\ self = "BenchmarkingTool"
    /\ Len(comparison_history) < MaxHist
    /\ IF standard_key \notin DOMAIN INDUSTRY_STANDARDS
       THEN /\ ret' = Call("compare_against_standard",
                           <<metric_name, actual_value, standard_key>>, TRUE, "ValueError")
            /\ UNCHANGED comparison_history
       ELSE LET comparison == _compare_values(actual_value, INDUSTRY_STANDARDS[standard_key])
            IN  /\ comparison_history' = Append(comparison_history, comparison)
                /\ ret' = Call("compare_against_standard",
                               <<metric_name, actual_value, standard_key>>, FALSE, comparison)
    /\ UNCHANGED <<self, rpVars, custom_baselines, rvVars, mmVars, paVars>>

\* a variant that falls back on the industry standards for a name that is not
\* a custom baseline
compare_against_baseline_with_fallback(metric_name, actual_value, baseline_name) ==
    /\ self = "BenchmarkingTool"
    /\ Len(comparison_history) < MaxHist
    /\ IF ~HasBaseline(custom_baselines, baseline_name)
          /\ baseline_name \notin DOMAIN INDUSTRY_STANDARDS
       THEN /\ ret' = Call("compare_against_baseline",
                           <<metric_name, actual_value, baseline_name>>, TRUE, "ValueError")
            /\ UNCHANGED comparison_history
       ELSE LET comparison ==
                   _compare_values(actual_value,
                                   IF HasBaseline(custom_baselines, baseline_name)
                                   THEN GetBaseline(custom_baselines, baseline_name)
                                   ELSE INDUSTRY_STANDARDS[baseline_name])
            IN  /\ comparison_history' = Append(comparison_history, comparison)
                /\ ret' = Call("compare_against_baseline",
                               <<metric_name, actual_value, baseline_name>>, FALSE, comparison)
    /\ UNCHANGED <<self, rpVars, custom_baselines, rvVars, mmVars, paVars>>

compare_against_baseline(metric_name, actual_value, baseline_name) ==
    /\ self = "BenchmarkingTool"
    /\ Len(comparison_history) < MaxHist
    /\ IF ~HasBaseline(custom_baselines, baseline_name)
       THEN /\ ret' = Call("compare_against_baseline",
                           <<metric_name, actual_value, baseline_name>>, TRUE, "ValueError")
            /\ UNCHANGED comparison_history
       ELSE LET comparison ==
                   _compare_values(actual_value, GetBaseline(custom_baselines, baseline_name))
            IN  /\ comparison_history' = Append(comparison_history, comparison)
                /\ ret' = Call("compare_against_baseline",
                               <<metric_name, actual_value, baseline_name>>, FALSE, comparison)
    /\ UNCHANGED <<self, rpVars, custom_baselines, rvVars, mmVars, paVars>>

batch_compare(metrics, standard_mappings) ==
    /\ self = "BenchmarkingTool"
    /\ Len(comparison_history) + Len(metrics) <= MaxHist
    /\ \A i, j \in 1..Len(metrics) : metrics[i][1] = metrics[j][1] => i = j
    /\ LET comparisons == BatchComparisons(metrics, standard_mappings, 1)
       IN  /\ comparison_history' = comparison_history \o comparisons
           /\ ret' = Call("batch_compare", <<metrics, standard_mappings>>, FALSE,
                          BatchCompareSummary(comparisons))
    /\ UNCHANGED <<self, rpVars, custom_baselines, rvVars, mmVars, paVars>>

list_available_standards(category) ==
    /\ self = "BenchmarkingTool"
    /\ ret' = Call("list_available_standards", <<category>>, FALSE,
                   {key \in DOMAIN INDUSTRY_STANDARDS :
                       category = <<>> \/ <<INDUSTRY_STANDARDS[key].category>> = category})
    /\ UNCHANGED <<self, rpVars, btVars, rvVars, mmVars, paVars>>

generate_benchmarking_report ==
    /\ self = "BenchmarkingTool"
    /\ ret' = Call("generate_benchmarking_report", <<>>, FALSE,
                   [available_standards |-> Cardinality(DOMAIN INDUSTRY_STANDARDS),
                    custom_baselines |-> Len(custom_baselines),
                    total_comparisons |-> Len(comparison_history),
                    comparisons |-> comparison_history,
                    custom_baselines_list |-> [k \in 1..Len(custom_baselines) |->
                                                  custom_baselines[k][2]]])
    /\ UNCHANGED <<self, rpVars, btVars, rvVars, mmVars, paVars>>

NextBT ==
    \/ \E name \in BaselineNames, b \in BaselineInputs : add_custom_baseline(name, b[1], b[2])
    \/ \E m \in MetricNames, v \in ActualValues, key \in StandardKeys :
          compare_against_standard(m, v, key)
    \/ \E m \in MetricNames, v \in ActualValues, name \in BaselineNames \cup {"unknown", "latency_p95_good"} :
          compare_against_baseline(m, v, name)
    \/ \E metrics \in BatchMetrics, mappings \in BatchMappings : batch_compare(metrics, mappings)
    \/ \E category \in {<<>>, <<"latency">>} : list_available_standards(category)
    \/ generate_benchmarking_report

(***************************************************************************)
(* src/reporting.py (recommendation lists and section timestamps are left  *)
(* out; a formatted string is modelled by the tuple of its parts)          *)
(***************************************************************************)
ReportFormats == {"json", "text", "markdown", "html"}

Anomaly(category, severity, description, affected_metric, expected_value, actual_value) ==
    [category |-> category, severity |-> severity, description |-> description,
     affected_metric |-> affected_metric, expected_value |-> expected_value,
     actual_value |-> actual_value]

ReportSection(title, summary, data, section_anomalies) ==
    [title |-> title, summary |-> summary, data |-> data, anomalies |-> section_anomalies]

\* a variant that flags a discrepancy cost of 1000 and more
RECURSIVE _detect_validation_anomalies_from_1000(_, _)
_detect_validation_anomalies_from_1000(validation_results, k) ==
    IF k > Len(validation_results) THEN <<>>
    ELSE LET result == validation_results[k]
             by_status ==
                IF result.status = "critical"
                THEN <<Anomaly("resource_validation", "critical",
                               <<"Critical discrepancy in", result.resource_type>>,
                               result.resource_type, <<result.claimed>>, <<result.actual>>)>>
                ELSE IF result.status = "discrepancy"
                THEN <<Anomaly("resource_validation", "error",
                               <<"Discrepancy in", result.resource_type,
                                 RRound(result.variance_percent, 10)>>,
                               result.resource_type, <<result.claimed>>, <<result.actual>>)>>
                ELSE <<>>
             by_cost ==
                IF RLe(RInt(1000), result.discrepancy_cost)
                THEN <<Anomaly("cost_anomaly", "warning",
                               <<"High cost discrepancy", RRound(result.discrepancy_cost, 100)>>,
                               <<result.resource_type, "_cost">>, <<>>, <<>>)>>
                ELSE <<>>
         IN  by_status \o by_cost \o _detect_validation_anomalies_from_1000(validation_results, k + 1)

RECURSIVE _detect_validation_anomalies(_, _)
_detect_validation_anomalies(validation_results, k) ==
    IF k > Len(validation_results) THEN <<>>
    ELSE LET result == validation_results[k]
             by_status ==
                IF result.status = "critical"
                THEN <<Anomaly("resource_validation", "critical",
                               <<"Critical discrepancy in", result.resource_type>>,
                               result.resource_type, <<result.claimed>>, <<result.actual>>)>>
                ELSE IF result.status = "discrepancy"
                THEN <<Anomaly("resource_validation", "error",
                               <<"Discrepancy in", result.resource_type,
                                 RRound(result.variance_percent, 10)>>,
                               result.resource_type, <<result.claimed>>, <<result.actual>>)>>
                ELSE <<>>
             by_cost ==
                IF RLt(RInt(1000), result.discrepancy_cost)
                THEN <<Anomaly("cost_anomaly", "warning",
                               <<"High cost discrepancy", RRound(result.discrepancy_cost, 100)>>,
                               <<result.resource_type, "_cost">>, <<>>, <<>>)>>
                ELSE <<>>
         IN  by_status \o by_cost \o _detect_validation_anomalies(validation_results, k + 1)

RECURSIVE _detect_scaling_anomalies(_, _)
_detect_scaling_anomalies(ps, k) ==
    IF k > Len(ps) THEN <<>>
    ELSE LET projection == ps[k]
             infra == projection.infrastructure_requirements
             by_efficiency ==
                IF RLt(Frac(90, 100), projection.scaling_efficiency)
                THEN <<Anomaly("scaling_efficiency", "warning",
                               <<"Poor scaling efficiency at", projection.user_count>>,
                               "scaling_efficiency", <<>>, <<projection.scaling_efficiency>>)>>
                ELSE <<>>
             by_cost ==
                IF RLt(RInt(100000), projection.monthly_cost)
                THEN <<Anomaly("high_cost", "warning",
                               <<"High projected cost", projection.monthly_cost,
                                 projection.user_count>>,
                               "monthly_cost", <<>>, <<projection.monthly_cost>>)>>
                ELSE <<>>
             by_infrastructure ==
                IF infra.compute_instances > 100
                THEN <<Anomaly("infrastructure_scale", "info",
                               <<"Large infrastructure required", infra.compute_instances>>,
                               "compute_instances", <<>>, <<RInt(infra.compute_instances)>>)>>
                ELSE <<>>
         IN  by_efficiency \o by_cost \o by_infrastructure
                \o _detect_scaling_anomalies(ps, k + 1)

_detect_performance_anomalies(latencies, throughputs) ==
    LET by_latency ==
            IF latencies = <<>> THEN <<>>
            ELSE LET latest == latencies[Len(latencies)]
                 IN  (IF latest.p95_ms > DEGRADED_LATENCY_P95
                      THEN <<Anomaly("performance",
                                     IF latest.p95_ms > 5000 THEN "critical" ELSE "error",
                                     <<"High P95 latency", latest.p95_ms>>,
                                     "p95_latency", <<>>, <<RInt(latest.p95_ms)>>)>>
                      ELSE <<>>)
                     \o (IF latest.max_ms > latest.avg_ms * 10
                         THEN <<Anomaly("performance", "warning",
                                        <<"High latency variability", latest.max_ms,
                                          latest.avg_ms>>,
                                        "latency_variability", <<>>, <<>>)>>
                         ELSE <<>>)
        by_throughput ==
            IF throughputs = <<>> THEN <<>>
            ELSE LET latest == throughputs[Len(throughputs)]
                 IN  IF RLt(ACCEPTABLE_ERROR_RATE, latest.error_rate)
                     THEN <<Anomaly("reliability",
                                    IF RLt(Frac(10, 100), latest.error_rate)
                                    THEN "critical" ELSE "error",
                                    <<"High error rate",
                                      RRound(RScale(latest.error_rate, 100, 1), 100)>>,
                                    "error_rate", <<>>,
                                    <<RScale(latest.error_rate, 100, 1)>>)>>
                     ELSE <<>>
    IN  by_latency \o by_throughput

RECURSIVE _detect_benchmarking_anomalies(_, _)
_detect_benchmarking_anomalies(comparisons, k) ==
    IF k > Len(comparisons) THEN <<>>
    ELSE LET comparison == comparisons[k]
             found ==
                IF comparison.result = "significantly_below"
                THEN <<Anomaly("benchmark", "critical",
                               <<"Significantly below", comparison.benchmark_name>>,
                               comparison.category, <<comparison.benchmark_value>>,
                               <<comparison.actual_value>>)>>
                ELSE IF comparison.result = "below_standard"
                THEN <<Anomaly("benchmark", "warning",
                               <<"Below", comparison.benchmark_name>>,
                               comparison.category, <<comparison.benchmark_value>>,
                               <<comparison.actual_value>>)>>
                ELSE <<>>
         IN  found \o _detect_benchmarking_anomalies(comparisons, k + 1)

\* PerformanceAnalyzer.generate_performance_report as add_performance_section
\* calls it: the histories it leaves behind and the report it returns
HistoryAfterReport(history) ==
    IF history # <<>> THEN Append(history, history[Len(history)]) ELSE history

PerformanceReport(latencies, throughputs, load_tests) ==
    LET latency == IF latencies # <<>>
                   THEN <<LatencyAnalysis(latencies[Len(latencies)])>>
                   ELSE <<>>
        throughput == IF throughputs # <<>>
                      THEN <<ThroughputAnalysis(throughputs[Len(throughputs)])>>
                      ELSE <<>>
        lat == HistoryAfterReport(latencies)
        thr == HistoryAfterReport(throughputs)
    IN  [latency |-> latency,
         throughput |-> throughput,
         trends |-> IF Len(lat) >= 2 THEN <<PerformanceTrends(lat, thr, 10)>> ELSE <<>>,
         scaling |-> IF Len(load_tests) >= 2 THEN <<ScalingAnalysis(load_tests)>> ELSE <<>>,
         summary |->
            [overall_status |->
                OverallStatus({latency[k].status : k \in 1..Len(latency)}
                              \cup {throughput[k].status : k \in 1..Len(throughput)})]]

\* BenchmarkingTool.generate_benchmarking_report(include_history=True)
BenchmarkingReport(baselines, comparisons) ==
    [available_standards |-> Cardinality(DOMAIN INDUSTRY_STANDARDS),
     custom_baselines |-> Len(baselines),
     total_comparisons |-> Len(comparisons),
     comparisons |-> [k \in 1..Len(comparisons) |-> _comparison_to_dict(comparisons[k])],
     by_result |-> [r \in {comparisons[k].result : k \in 1..Len(comparisons)} |->
                       CountResult(comparisons, r)],
     latest_comparison |->
        IF comparisons # <<>>
        THEN <<_comparison_to_dict(comparisons[Len(comparisons)])>>
        ELSE <<>>,
     custom_baselines_list |-> [k \in 1..Len(baselines) |-> baselines[k][2]]]

\* max(projections, key=lambda p: p.user_count): the first of the largest
LargestProjection(ps) ==
    ps[CHOOSE k \in 1..Len(ps) :
          /\ \A j \in 1..Len(ps) : ps[j].user_count <= ps[k].user_count
          /\ \A j \in 1..(k - 1) : ps[j].user_count < ps[k].user_count]

CountSeverity(found, severity) ==
    Cardinality({k \in 1..Len(found) : found[k].severity = severity})

\* _generate_executive_summary: the overview sentence is the tuple of its parts
_generate_executive_summary(report_sections, report_anomalies) ==
    LET critical_count == CountSeverity(report_anomalies, "critical")
        error_count == CountSeverity(report_anomalies, "error")
        warning_count == CountSeverity(report_anomalies, "warning")
    IN  [overview |->
            <<<<"sections", Len(report_sections)>>>>
            \o (IF critical_count > 0 THEN <<<<"critical", critical_count>>>> ELSE <<>>)
            \o (IF error_count > 0 THEN <<<<"errors", error_count>>>> ELSE <<>>)
            \o (IF warning_count > 0 THEN <<<<"warnings", warning_count>>>> ELSE <<>>)
            \o (IF critical_count = 0 /\ error_count = 0
                THEN <<<<"health is good", 0>>>> ELSE <<>>),
         total_anomalies |-> Len(report_anomalies),
         critical_anomalies |-> critical_count,
         error_anomalies |-> error_count,
         warning_anomalies |-> warning_count,
         sections_analyzed |-> Len(report_sections)]

\* the lines a text, markdown or html report writes for one section
SectionLines(section) ==
    [title |-> section.title,
     summary |-> section.summary,
     anomalies |-> [k \in 1..Len(section.anomalies) |->
                      <<section.anomalies[k].severity, section.anomalies[k].description>>]]

\* the closing summary of the text and markdown reports: for CRITICAL, ERROR
\* and WARNING in that order, the descriptions of the anomalies of the severity
AnomalySummary(report_anomalies) ==
    LET of(severity) ==
            SelectSeq(report_anomalies, LAMBDA a : a.severity = severity)
        block(severity) ==
            IF of(severity) # <<>>
            THEN <<[severity |-> severity,
                    count |-> Len(of(severity)),
                    descriptions |-> [k \in 1..Len(of(severity)) |->
                                         of(severity)[k].description]]>>
            ELSE <<>>
    IN  block("critical") \o block("error") \o block("warning")

_generate_json_report(title, report_sections, report_anomalies, metadata) ==
    [format |-> "json",
     title |-> title,
     metadata |-> metadata,
     executive_summary |-> _generate_executive_summary(report_sections, report_anomalies),
     sections |-> report_sections,
     all_anomalies |-> report_anomalies,
     critical_anomalies_count |-> CountSeverity(report_anomalies, "critical"),
     total_sections |-> Len(report_sections)]

_generate_text_report(title, report_sections, report_anomalies, metadata) ==
    LET summary == _generate_executive_summary(report_sections, report_anomalies)
    IN  [format |-> "text",
         title |-> <<"upper", title>>,
         generated |-> metadata.created_at,
         overview |-> summary.overview,
         total_sections |-> Len(report_sections),
         critical_anomalies |-> summary.critical_anomalies,
         total_anomalies |-> summary.total_anomalies,
         sections |-> [k \in 1..Len(report_sections) |-> SectionLines(report_sections[k])],
         anomaly_summary |-> AnomalySummary(report_anomalies)]

_generate_markdown_report(title, report_sections, report_anomalies, metadata) ==
    LET summary == _generate_executive_summary(report_sections, report_anomalies)
    IN  [format |-> "markdown",
         title |-> title,
         generated |-> metadata.created_at,
         overview |-> summary.overview,
         total_sections |-> Len(report_sections),
         critical_anomalies |-> summary.critical_anomalies,
         total_anomalies |-> summary.total_anomalies,
         table_of_contents |-> [k \in 1..Len(report_sections) |-> report_sections[k].title],
         sections |-> [k \in 1..Len(report_sections) |-> SectionLines(report_sections[k])],
         anomaly_summary |-> AnomalySummary(report_anomalies)]

_generate_html_report(title, report_sections, report_anomalies, metadata) ==
    LET summary == _generate_executive_summary(report_sections, report_anomalies)
    IN  [format |-> "html",
         title |-> title,
         generated |-> metadata.created_at,
         overview |-> summary.overview,
         total_sections |-> Len(report_sections),
         critical_anomalies |-> summary.critical_anomalies,
         total_anomalies |-> summary.total_anomalies,
         sections |-> [k \in 1..Len(report_sections) |-> SectionLines(report_sections[k])]]

RenderReport(format, title, report_sections, report_anomalies, metadata) ==
    IF format = "json"
    THEN _generate_json_report(title, report_sections, report_anomalies, metadata)
    ELSE IF format = "text"
    THEN _generate_text_report(title, report_sections, report_anomalies, metadata)
    ELSE IF format = "markdown"
    THEN _generate_markdown_report(title, report_sections, report_anomalies, metadata)
    ELSE _generate_html_report(title, report_sections, report_anomalies, metadata)

DefaultTitle == "Comprehensive Resource and Performance Analysis Report"

(***************************************************************************)
(* ComprehensiveReportGenerator: the public methods.  The analyzer handed  *)
(* to an add_*_section call is the analyzer of the behaviour.              *)
(***************************************************************************)
add_validation_section ==
    /\ self = "ResourceValidator"
    /\ Len(sections) < MaxHist
    /\ IF validation_history = <<>>
       THEN UNCHANGED <<sections, anomalies>>
       ELSE LET found == _detect_validation_anomalies(validation_history, 1)
                total == Len(validation_history)
                discrepancies ==
                    CountStatus(validation_history, "discrepancy")
                        + CountStatus(validation_history, "critical")
                total_cost_variance == SumCost(validation_history, 1)
            IN  /\ anomalies' = anomalies \o found
                /\ sections' =
                      Append(sections,
                             ReportSection("Resource Validation",
                                           [total |-> total,
                                            discrepancies |-> discrepancies,
                                            total_cost_variance |->
                                               RRound(total_cost_variance, 100)],
                                           [total_resources |-> total,
                                            discrepancies_found |-> discrepancies,
                                            total_cost_variance |->
                                               RRound(total_cost_variance, 100),
                                            validation_results |->
                                               [k \in 1..total |->
                                                   _result_to_dict(validation_history[k])]],
                                           found))
    /\ ret' = Call("add_validation_section", <<>>, FALSE, "None")
    /\ UNCHANGED <<self, report_metadata, rvVars, mmVars, paVars, btVars>>

\* the anomalies are recorded before generate_scaling_report is called, so a
\* division by zero in that call leaves them behind without a section
add_scaling_section ==
    /\ self = "MicroMacroAnalyzer"
    /\ Len(sections) < MaxHist
    /\ Len(anomalies) <= MaxHist
    /\ IF projections = <<>>
       THEN /\ ret' = Call("add_scaling_section", <<>>, FALSE, "None")
            /\ UNCHANGED <<sections, anomalies>>
       ELSE LET found == _detect_scaling_anomalies(projections, 1)
                largest_projection == LargestProjection(projections)
                data == IF user_samples = <<>>
                        THEN [error |-> "No user samples available for analysis",
                              timestamp |-> "now"]
                        ELSE ScalingReport(user_samples, projections)
            IN  /\ anomalies' = anomalies \o found
                /\ IF /\ user_samples # <<>>
                      /\ GrowthDividesByZero(projections) \/ SummaryDividesByZero(projections)
                   THEN /\ ret' = Call("add_scaling_section", <<>>, TRUE, "ZeroDivisionError")
                        /\ UNCHANGED sections
                   ELSE /\ ret' = Call("add_scaling_section", <<>>, FALSE, "None")
                        /\ sections' =
                              Append(sections,
                                     ReportSection("Scaling Analysis (Micro to Macro)",
                                                   [user_samples |-> Len(user_samples),
                                                    user_count |-> largest_projection.user_count,
                                                    monthly_cost |->
                                                       largest_projection.monthly_cost],
                                                   data, found))
    /\ UNCHANGED <<self, report_metadata, rvVars, mmVars, paVars, btVars>>

\* analyzer.generate_performance_report() analyses the latest samples through
\* analyze_latency and analyze_throughput, which append them to the histories
add_performance_section ==
    /\ self = "PerformanceAnalyzer"
    /\ Len(sections) < MaxHist
    /\ Len(anomalies) <= MaxHist
    /\ Len(latency_history) < MaxHist
    /\ Len(throughput_history) < MaxHist
    /\ IF latency_history = <<>> /\ throughput_history = <<>>
       THEN /\ ret' = Call("add_performance_section", <<>>, FALSE, "None")
            /\ UNCHANGED <<sections, anomalies, latency_history, throughput_history>>
       ELSE LET found == _detect_performance_anomalies(latency_history, throughput_history)
                perf_report ==
                    PerformanceReport(latency_history, throughput_history, load_test_results)
            IN  /\ anomalies' = anomalies \o found
                /\ latency_history' = HistoryAfterReport(latency_history)
                /\ throughput_history' = HistoryAfterReport(throughput_history)
                /\ IF ScalingDividesByZero(load_test_results)
                   THEN /\ ret' = Call("add_performance_section", <<>>, TRUE,
                                       "ZeroDivisionError")
                        /\ UNCHANGED sections
                   ELSE /\ ret' = Call("add_performance_section", <<>>, FALSE, "None")
                        /\ sections' =
                              Append(sections,
                                     ReportSection("Server Performance Analysis",
                                                   [p95_ms |->
                                                       IF latency_history # <<>>
                                                       THEN <<latency_history[
                                                                 Len(latency_history)].p95_ms>>
                                                       ELSE <<>>,
                                                    requests_per_second |->
                                                       IF throughput_history # <<>>
                                                       THEN <<throughput_history[
                                                                 Len(throughput_history)]
                                                                 .requests_per_second>>
                                                       ELSE <<>>],
                                                   perf_report, found))
    /\ UNCHANGED <<self, report_metadata, load_test_results, rvVars, mmVars, btVars>>

add_benchmarking_section ==
    /\ self = "BenchmarkingTool"
    /\ Len(sections) < MaxHist
    /\ IF comparison_history = <<>>
       THEN UNCHANGED <<sections, anomalies>>
       ELSE LET found == _detect_benchmarking_anomalies(comparison_history, 1)
                below_standard ==
                    CountResult(comparison_history, "below_standard")
                        + CountResult(comparison_history, "significantly_below")
            IN  /\ anomalies' = anomalies \o found
                /\ sections' =
                      Append(sections,
                             ReportSection("Benchmarking Against Industry Standards",
                                           [total_comparisons |-> Len(comparison_history),
                                            below_standard |-> below_standard],
                                           BenchmarkingReport(custom_baselines,
                                                              comparison_history),
                                           found))
    /\ ret' = Call("add_benchmarking_section", <<>>, FALSE, "None")
    /\ UNCHANGED <<self, report_metadata, rvVars, mmVars, paVars, btVars>>

\* a variant that stamps the rendering time into report_metadata
generate_report_stamping(format, title) ==
    /\ ret' = IF format \in ReportFormats
              THEN Call("generate_report", <<format, title>>, FALSE,
                        RenderReport(format, title, sections, anomalies, report_metadata))
              ELSE Call("generate_report", <<format, title>>, TRUE, "ValueError")
    /\ report_metadata' = [report_metadata EXCEPT !.created_at = "later"]
    /\ UNCHANGED <<self, sections, anomalies, rvVars, mmVars, paVars, btVars>>

generate_report(format, title) ==
    /\ ret' = IF format \in ReportFormats
              THEN Call("generate_report", <<format, title>>, FALSE,
                        RenderReport(format, title, sections, anomalies, report_metadata))
              ELSE Call("generate_report", <<format, title>>, TRUE, "ValueError")
    /\ UNCHANGED <<self, rpVars, rvVars, mmVars, paVars, btVars>>

NextRP ==
    \/ add_validation_section
    \/ add_scaling_section
    \/ add_performance_section
    \/ add_benchmarking_section
    \/ \E format \in ReportFormats \cup {"pdf"} : generate_report(format, DefaultTitle)

\* the calls that fill the analyzer a report is made from
ReportClaims == {ResourceClaim("storage", 100, "GB", 5000)}

ReportUsages ==
    {ResourceUsage("storage", 100, "GB"), ResourceUsage("storage", 93, "GB"),
     ResourceUsage("storage", 80, "GB"), ResourceUsage("storage", 50, "GB")}

ReportTargets == {0, 1000000}

NextAnalyzer ==
    \/ \E claim \in ReportClaims, usage \in ReportUsages : validate_storage(claim, usage)
    \/ add_user_sample(FixedBase)
    \/ \E n \in ReportTargets : project_to_scale(n, <<>>)
    \/ \E metrics \in ReportLatencies : analyze_latency(metrics)
    \/ \E metrics \in ReportThroughputs : analyze_throughput(metrics)
    \/ \E v \in {RInt(250), RInt(330), RInt(500)} :
          compare_against_standard("p95", v, "latency_p95_good")

NextReport == NextAnalyzer \/ NextRP

NextBatchCompare ==
    /\ ret.op = "__init__"
    /\ \E metrics \in WideBatchMetrics, mappings \in WideBatchMappings :
          batch_compare(metrics, mappings)

Next == NextRV \/ NextMM \/ NextPA \/ NextBT

Classes == {"ResourceValidator", "MicroMacroAnalyzer", "PerformanceAnalyzer", "BenchmarkingTool"}

Init ==
    /\ self \in Classes
    /\ tolerance_percent \in Tolerances
    /\ self # "ResourceValidator" => tolerance_percent = 5
    /\ validation_history = <<>>
    /\ user_samples = <<>>
    /\ projections = <<>>
    /\ latency_history = <<>>
    /\ throughput_history = <<>>
    /\ load_test_results = <<>>
    /\ custom_baselines = <<>>
    /\ comparison_history = <<>>
    /\ sections = <<>>
    /\ anomalies = <<>>
    /\ report_metadata = [created_at |-> "now", generator_version |-> "1.0.0"]
    /\ ret = Call("__init__", <<>>, FALSE, "None")

InitRV == Init /\ self = "ResourceValidator"

SpecRV == InitRV /\ [][NextRV]_vars

SpecValidate == InitRV /\ [][NextValidate]_vars

InitMM == Init /\ self = "MicroMacroAnalyzer"

SpecMM == InitMM /\ [][NextMM]_vars
SpecDefaultBase == InitMM /\ [][NextDefaultBase]_vars

SpecProject == InitMM /\ [][NextProject]_vars

SpecScales == InitMM /\ [][NextScales]_vars

InitPA == Init /\ self = "PerformanceAnalyzer"

SpecPA == InitPA /\ [][NextPA]_vars

InitBT == Init /\ self = "BenchmarkingTool"

SpecLoadTests == InitPA /\ [][NextLoadTests]_vars

SpecBT == InitBT /\ [][NextBT]_vars

SpecBatchCompare == InitBT /\ [][NextBatchCompare]_vars

SpecReport == Init /\ [][NextReport]_vars

Spec == Init /\ [][Next]_vars

(***************************************************************************)
(* The properties checked.                                                 *)
(***************************************************************************)
IsPrefix(s, t) == Len(s) <= Len(t) /\ SubSeq(t, 1, Len(s)) = s

IsValidateCall(r) == r.op \in {"validate_storage", "validate_compute"}

IsValidation(r) == IsValidateCall(r) /\ ~r.raised

\* C1: in every step of any of the four analyzers each history list of the
\* instance (validation_history, user_samples, projections, latency_history,
\* throughput_history, load_test_results, comparison_history) keeps all the
\* entries it had, in their places, and never gets shorter.
C1_HistoriesAppendOnly ==
    [][/\ IsPrefix(validation_history, validation_history')
       /\ IsPrefix(user_samples, user_samples')
       /\ IsPrefix(projections, projections')
       /\ IsPrefix(latency_history, latency_history')
       /\ IsPrefix(throughput_history, throughput_history')
       /\ IsPrefix(load_test_results, load_test_results')
       /\ IsPrefix(comparison_history, comparison_history')]_vars

\* C1 witness: a performance report was generated on an analyzer that held one
\* latency and one throughput sample, and both histories have grown to two.
C1_Witness ==
    /\ ret.op = "generate_performance_report"
    /\ Len(latency_history) = 2
    /\ Len(throughput_history) = 2

\* C2: a validate_storage call whose claim or usage is not of type storage, and
\* a validate_compute call whose claim or usage is not of type compute, raises,
\* returns no result and leaves validation_history as it was.
C2_TypeMismatchRaises ==
    [][IsValidateCall(ret') =>
          LET expected == IF ret'.op = "validate_storage" THEN "storage" ELSE "compute"
              claim == ret'.args[1]
              usage == ret'.args[2]
          IN  (claim.resource_type # expected \/ usage.resource_type # expected)
                 => /\ ret'.raised
                    /\ validation_history' = validation_history]_vars

\* C2 witness: validate_storage has raised on a validator whose history holds
\* one earlier result.
C2_Witness ==
    /\ ret.op = "validate_storage"
    /\ ret.raised
    /\ ret.args[1].resource_type = "storage"
    /\ ret.args[2].resource_type # "storage"
    /\ Len(validation_history) = 1

\* C3: when the normalized claimed amount is positive, the status of a
\* validation is VALID exactly when |variance_percent| < 5, WARNING exactly
\* when 5 <= |variance_percent| < 10, DISCREPANCY exactly when
\* 10 <= |variance_percent| < 25 and CRITICAL exactly when it is 25 or more;
\* claimed 500 against actual 525 CPU-hours is WARNING.
C3_StatusLadder ==
    (IsValidation(ret) /\ RSign(ret.value.claimed) > 0) =>
        LET v == RAbs(ret.value.variance_percent)
            status == ret.value.status
        IN  /\ status = "valid" <=> RLt(v, RInt(5))
            /\ status = "warning" <=> (RLe(RInt(5), v) /\ RLt(v, RInt(10)))
            /\ status = "discrepancy" <=> (RLe(RInt(10), v) /\ RLt(v, RInt(25)))
            /\ status = "critical" <=> RLe(RInt(25), v)
            /\ (/\ ret.op = "validate_compute"
                /\ ret.args[1].claimed_amount = 500 /\ ret.args[1].unit = "CPU-hours"
                /\ ret.args[2].actual_amount = 525 /\ ret.args[2].unit = "CPU-hours")
               => status = "warning"

\* C3 witness: a validation with a variance of exactly 5 percent was made.
C3_Witness ==
    /\ IsValidation(ret)
    /\ RSign(ret.value.claimed) > 0
    /\ RAbs(ret.value.variance_percent) = RInt(5)
    /\ ret.value.status = "warning"

\* C4: in every validation result is_over_billed holds exactly when the
\* normalized actual amount exceeds the claimed one, is_under_billed exactly
\* when the claimed exceeds the actual, never both; equal amounts give both
\* flags false, status VALID, variance 0 and variance_percent 0; a non-zero
\* variance with positive claimed amount and positive cost gives a positive
\* discrepancy_cost.
C4_BillingFlags ==
    IsValidation(ret) =>
        LET r == ret.value IN
        /\ r.is_over_billed <=> RLt(r.claimed, r.actual)
        /\ r.is_over_billed <=> RSign(r.variance) < 0
        /\ r.is_under_billed <=> RLt(r.actual, r.claimed)
        /\ r.is_under_billed <=> RSign(r.variance) > 0
        /\ ~(r.is_over_billed /\ r.is_under_billed)
        /\ r.claimed = r.actual =>
              /\ ~r.is_over_billed
              /\ ~r.is_under_billed
              /\ r.status = "valid"
              /\ r.variance = RZero
              /\ r.variance_percent = RZero
        /\ (RSign(r.variance) # 0 /\ RSign(r.claimed) > 0 /\ ret.args[1].cost > 0)
              => RSign(r.discrepancy_cost) > 0

\* C4 witness: a validation found more used than claimed, at a positive cost.
C4_Witness ==
    /\ IsValidation(ret)
    /\ ret.value.is_over_billed
    /\ ~ret.value.is_under_billed
    /\ RSign(ret.value.discrepancy_cost) > 0

\* the canonical amount the unit table gives: GB for storage (TB x 1024,
\* MB / 1024, KB / 1024^2), CPU-hours for compute (minutes / 60,
\* seconds / 3600), any other unit string unconverted
C5_Canonical(op, amount, unit) ==
    IF op = "validate_storage"
    THEN IF unit = "TB" THEN RInt(amount * 1024)
         ELSE IF unit = "MB" THEN Frac(amount, 1024)
         ELSE IF unit = "KB" THEN Frac(amount, 1048576)
         ELSE RInt(amount)
    ELSE IF unit \in {"CPU-Minutes", "cpu_minutes"} THEN Frac(amount, 60)
         ELSE IF unit = "CPU-seconds" THEN Frac(amount, 3600)
         ELSE RInt(amount)

\* C5: a validation compares the claim and the usage in the canonical unit,
\* whatever their unit strings and their case: the claimed and actual amounts
\* of the result are the converted amounts and the variance is their
\* difference; 1 TB claimed against 1024 GB used gives variance 0 and VALID;
\* no unit string makes a call with matching types raise.
C5_CanonicalUnits ==
    (/\ IsValidateCall(ret)
     /\ ret.args[1].resource_type = ret.args[2].resource_type
     /\ ret.args[1].resource_type =
           (IF ret.op = "validate_storage" THEN "storage" ELSE "compute")) =>
        /\ ~ret.raised
        /\ ret.value.claimed =
              C5_Canonical(ret.op, ret.args[1].claimed_amount, ret.args[1].unit)
        /\ ret.value.actual =
              C5_Canonical(ret.op, ret.args[2].actual_amount, ret.args[2].unit)
        /\ ret.value.variance = RSub(ret.value.claimed, ret.value.actual)
        /\ (/\ ret.op = "validate_storage"
            /\ ret.args[1].claimed_amount = 1 /\ ret.args[1].unit = "TB"
            /\ ret.args[2].actual_amount = 1024 /\ ret.args[2].unit = "GB")
           => (ret.value.variance = RZero /\ ret.value.status = "valid")

\* C5 witness: 1 TB claimed was validated against 1024 GB used.
C5_Witness ==
    /\ ret.op = "validate_storage"
    /\ ~ret.raised
    /\ ret.args[1].claimed_amount = 1 /\ ret.args[1].unit = "TB"
    /\ ret.args[2].actual_amount = 1024 /\ ret.args[2].unit = "GB"
    /\ ret.value.status = "valid"

\* C6: in the summary of batch_validate the counts of valid, warnings,
\* discrepancies and critical add up to total_resources_validated, and
\* overall_status is critical if some result is CRITICAL, else discrepancy if
\* some is DISCREPANCY, else warning if some is WARNING, else valid.
C6_BatchSummary ==
    ret.op = "batch_validate" =>
        LET b == ret.value
            Some(st) == \E k \in 1..Len(b.results) : b.results[k].status = st
        IN  /\ b.summary.valid + b.summary.warnings + b.summary.discrepancies
                  + b.summary.critical = b.total_resources_validated
            /\ b.total_resources_validated = Len(b.results)
            /\ b.overall_status =
                  (IF Some("critical") THEN "critical"
                   ELSE IF Some("discrepancy") THEN "discrepancy"
                   ELSE IF Some("warning") THEN "warning"
                   ELSE "valid")

\* C6 witness: a batch produced a DISCREPANCY and a WARNING result.
C6_Witness ==
    /\ ret.op = "batch_validate"
    /\ ret.value.summary.discrepancies = 1
    /\ ret.value.summary.warnings = 1
    /\ ret.value.overall_status = "discrepancy"

\* C7: batch_validate validates each storage or compute claim against the
\* first usage of the claim's type, skips a claim of another type or without
\* a usage of its type, and appends exactly total_resources_validated results
\* to validation_history, in the order of the claims.
C7_BatchFirstMatch ==
    [][ret'.op = "batch_validate" =>
          LET claims == ret'.args[1]
              usages == ret'.args[2]
              Matches(k, j) == usages[j].resource_type = claims[k].resource_type
              Matched(k) == /\ claims[k].resource_type \in {"storage", "compute"}
                            /\ \E j \in 1..Len(usages) : Matches(k, j)
              First(k) == CHOOSE j \in 1..Len(usages) :
                              Matches(k, j) /\ \A i \in 1..(j - 1) : ~Matches(k, i)
              Rank(k) == Cardinality({i \in 1..k : Matched(i)})
              n == ret'.value.total_resources_validated
              old == Len(validation_history)
          IN  /\ n = Cardinality({k \in 1..Len(claims) : Matched(k)})
              /\ Len(validation_history') = old + n
              /\ IsPrefix(validation_history, validation_history')
              /\ \A k \in 1..Len(claims) :
                    Matched(k) =>
                       validation_history'[old + Rank(k)] =
                          (IF claims[k].resource_type = "storage"
                           THEN StorageResult(claims[k], usages[First(k)])
                           ELSE ComputeResult(claims[k], usages[First(k)]))]_vars

\* C7 witness: a batch of two storage claims against a list with two storage
\* usages of different amounts has appended two results, both measured against
\* the first of them.
C7_Witness ==
    /\ ret.op = "batch_validate"
    /\ Len(ret.args[1]) = 2
    /\ ret.args[1][1].resource_type = "storage"
    /\ ret.args[1][2].resource_type = "storage"
    /\ Len(ret.args[2]) >= 2
    /\ ret.args[2][1] = ResourceUsage("storage", 90, "GB")
    /\ ret.args[2][2] = ResourceUsage("storage", 100, "GB")
    /\ ret.value.total_resources_validated = 2
    /\ Len(validation_history) = 2
    /\ validation_history[1].actual = RInt(90)
    /\ validation_history[2].actual = RInt(90)

\* C8: the tolerance_percent given to the constructor decides VALID: a
\* validation is VALID exactly when |variance_percent| is below the
\* validator's tolerance_percent.
C8_ToleranceGovernsValid ==
    IsValidation(ret) =>
        (ret.value.status = "valid"
            <=> RLt(RAbs(ret.value.variance_percent), RInt(tolerance_percent)))

\* C9: the projection project_to_scale returns has annual_cost equal to twelve
\* times its monthly_cost, on the stored values.
C9_AnnualIsTwelveMonthly ==
    (ret.op = "project_to_scale" /\ ~ret.raised) =>
        ret.value.annual_cost = RScale(ret.value.monthly_cost, 12, 1)

\* the seven buckets: lower bound, scale level, efficiency coefficient
C10_Buckets ==
    {<<1, "single_user", Frac(100, 100)>>,
     <<100, "hundred_users", Frac(95, 100)>>,
     <<1000, "thousand_users", Frac(90, 100)>>,
     <<10000, "ten_thousand_users", Frac(85, 100)>>,
     <<100000, "hundred_thousand_users", Frac(80, 100)>>,
     <<1000000, "million_users", Frac(75, 100)>>,
     <<10000000, "ten_million_users", Frac(70, 100)>>}

C10_Met(n) == {b \in C10_Buckets : n >= b[1]}

\* C10 as stated: the projection for n users has the level and coefficient of
\* the bucket with the smallest lower bound that n meets or exceeds.
C10_SmallestLowerBound ==
    (ret.op = "project_to_scale" /\ ~ret.raised /\ C10_Met(ret.args[1]) # {}) =>
        LET b == CHOOSE b \in C10_Met(ret.args[1]) :
                     \A c \in C10_Met(ret.args[1]) : b[1] <= c[1]
        IN  /\ ret.value.scale_level = b[2]
            /\ ret.value.scaling_efficiency = b[3]

\* C10 amended: the projection for n users has the level and the fixed
\* coefficient of the bucket with the largest lower bound that n meets or
\* exceeds; a count below 1 meets none and gets the single-user bucket.
C10_LargestLowerBound ==
    (ret.op = "project_to_scale" /\ ~ret.raised) =>
        LET met == C10_Met(ret.args[1])
            b == IF met = {} THEN <<1, "single_user", Frac(100, 100)>>
                 ELSE CHOOSE b \in met : \A c \in met : b[1] >= c[1]
        IN  /\ ret.value.scale_level = b[2]
            /\ ret.value.scaling_efficiency = b[3]

\* C10 witness: a projection for exactly 100 users is in the hundred-users
\* bucket.
C10_Witness ==
    /\ ret.op = "project_to_scale"
    /\ ~ret.raised
    /\ ret.args[1] = 100
    /\ ret.value.scale_level = "hundred_users"
    /\ ret.value.scaling_efficiency = Frac(95, 100)

\* the canonical sequence of target user counts
C11_Canonical == {1, 100, 1000, 10000, 100000, 1000000, 10000000}

\* C11: among the projections of one base profile, a projection for more users
\* never has a larger scaling_efficiency than one for fewer users, and between
\* two different counts of the canonical sequence 1, 100, ..., 1e7 the
\* efficiency of the larger count is strictly smaller.
C11_EfficiencyMonotone ==
    \A i, j \in 1..Len(projections) :
        projections[i].user_count <= projections[j].user_count =>
            /\ RLe(projections[j].scaling_efficiency, projections[i].scaling_efficiency)
            /\ (/\ projections[i].user_count \in C11_Canonical
                /\ projections[j].user_count \in C11_Canonical
                /\ projections[i].user_count < projections[j].user_count)
               => RLt(projections[j].scaling_efficiency, projections[i].scaling_efficiency)

\* C11 witness: the analyzer holds a projection for 100000 users made before a
\* projection for 10000 users, the second with the larger efficiency.
C11_Witness ==
    /\ Len(projections) = 2
    /\ projections[1].user_count = 100000
    /\ projections[2].user_count = 10000
    /\ RLt(projections[1].scaling_efficiency, projections[2].scaling_efficiency)

\* C12: every call of project_multiple_scales returns exactly 7 projections,
\* for 1, 100, 1000, 10000, 100000, 1000000 and 10000000 users in this
\* (strictly ascending) order, and the projections list after the call is the
\* list before it followed by exactly these 7 projections.
C12_SevenProjections ==
    [][ret'.op = "project_multiple_scales" =>
          /\ ~ret'.raised
          /\ Len(ret'.value) = 7
          /\ [k \in 1..Len(ret'.value) |-> ret'.value[k].user_count]
                = <<1, 100, 1000, 10000, 100000, 1000000, 10000000>>
          /\ \A k \in 1..(Len(ret'.value) - 1) :
                ret'.value[k].user_count < ret'.value[k + 1].user_count
          /\ projections' = projections \o ret'.value]_vars

\* C12 witness: project_multiple_scales has run on an analyzer that already
\* held one projection.
C12_Witness ==
    /\ ret.op = "project_multiple_scales"
    /\ Len(projections) = 8
    /\ projections[1].user_count = 1000
    /\ projections[8].user_count = 10000000

\* C13: generate_scaling_report on an analyzer without user samples, whatever
\* projections it holds, does not raise, returns a payload whose keys are
\* error and timestamp, and leaves user_samples and projections as they were.
C13_ReportWithoutSamples ==
    [][(ret'.op = "generate_scaling_report" /\ user_samples = <<>>) =>
          /\ ~ret'.raised
          /\ DOMAIN ret'.value = {"error", "timestamp"}
          /\ user_samples' = user_samples
          /\ projections' = projections]_vars

\* C13 witness: the report was asked of an analyzer that holds no sample and a
\* projection for zero users, and the error payload came back.
C13_Witness ==
    /\ ret.op = "generate_scaling_report"
    /\ ~ret.raised
    /\ user_samples = <<>>
    /\ Len(projections) >= 1
    /\ projections[1].user_count = 0
    /\ "error" \in DOMAIN ret.value

\* the keys of INDUSTRY_STANDARDS whose benchmark is a price
CostStandardKeys ==
    {"storage_cost_aws_s3_standard", "storage_cost_aws_s3_ia", "storage_cost_gcp_standard",
     "compute_cost_aws_t3_medium", "compute_cost_aws_c5_large",
     "compute_cost_gcp_n1_standard_2"}

IsCostBenchmark(c) ==
    \/ c.category = "cost"
    \/ \E key \in CostStandardKeys : INDUSTRY_STANDARDS[key].name = c.benchmark_name

\* C14: in the result of batch_compare, a metric whose value is 25% above the
\* value of a cost benchmark is classified significantly_below.
C14_CostAboveIsSignificantlyBelow ==
    (ret.op = "batch_compare" /\ ~ret.raised) =>
        \A k \in 1..Len(ret.value.comparisons) :
            LET c == ret.value.comparisons[k]
            IN  (IsCostBenchmark(c) /\ c.variance_percent = RInt(25))
                    => c.result = "significantly_below"

\* C15 as stated: in the result of batch_compare, a metric whose value is 15%
\* above the value of a throughput benchmark is classified exceeds_standard.
C15_ThroughputAboveExceeds ==
    (ret.op = "batch_compare" /\ ~ret.raised) =>
        \A k \in 1..Len(ret.value.comparisons) :
            LET c == ret.value.comparisons[k]
            IN  (c.category = "throughput" /\ c.variance_percent = RInt(15))
                    => c.result = "exceeds_standard"

\* C15: in the result of batch_compare, a metric whose value is 15% above the
\* value of a throughput benchmark is classified meets_standard; a throughput
\* metric is classified exceeds_standard exactly when it is more than 20% above
\* the benchmark.  (On a fresh tool comparison_history holds the unrounded
\* comparisons of the call, in the order of the output.)
C15_ThroughputAboveMeets ==
    (ret.op = "batch_compare" /\ ~ret.raised) =>
        /\ Len(comparison_history) = Len(ret.value.comparisons)
        /\ \A k \in 1..Len(ret.value.comparisons) :
              LET c == ret.value.comparisons[k]
                  variance_percent == comparison_history[k].variance_percent
              IN  c.category = "throughput" =>
                     /\ variance_percent = RInt(15) => c.result = "meets_standard"
                     /\ c.result = "exceeds_standard" <=> RLt(RInt(20), variance_percent)

C15_Witness ==
    /\ ret.op = "batch_compare"
    /\ ~ret.raised
    /\ \E k \in 1..Len(ret.value.comparisons) :
          /\ ret.value.comparisons[k].category = "throughput"
          /\ ret.value.comparisons[k].variance_percent = RInt(15)
          /\ ret.value.comparisons[k].result = "meets_standard"

\* C16: compare_against_standard raises the not-found error exactly when the key
\* is not in INDUSTRY_STANDARDS, and compare_against_baseline exactly when the
\* name is not among the custom baselines of the instance (an industry-standard
\* key included); a failing call leaves comparison_history and custom_baselines
\* as they were, a successful call appends exactly the returned comparison to
\* comparison_history.
C16_Step ==
    /\ ret'.op = "compare_against_standard" =>
          (ret'.raised <=> ret'.args[3] \notin DOMAIN INDUSTRY_STANDARDS)
    /\ ret'.op = "compare_against_baseline" =>
          (ret'.raised <=> ~HasBaseline(custom_baselines, ret'.args[3]))
    /\ ret'.op \in {"compare_against_standard", "compare_against_baseline"} =>
          IF ret'.raised
          THEN /\ ret'.value = "ValueError"
               /\ comparison_history' = comparison_history
               /\ custom_baselines' = custom_baselines
          ELSE /\ comparison_history' = Append(comparison_history, ret'.value)
               /\ custom_baselines' = custom_baselines

C16_NotFoundLeavesState == [][C16_Step]_vars

C16_Witness ==
    /\ ret.op = "compare_against_baseline"
    /\ ret.raised
    /\ ret.args[3] \in DOMAIN INDUSTRY_STANDARDS
    /\ Len(comparison_history) = 1
    /\ Len(custom_baselines) = 1

\* the metrics of a batch that are mapped to a key of INDUSTRY_STANDARDS, in
\* the order of the batch
HasKnownStandard(metric, standard_mappings) ==
    \E m \in standard_mappings : m[1] = metric[1] /\ m[2] \in DOMAIN INDUSTRY_STANDARDS

KnownMetrics(metrics, standard_mappings) ==
    SelectSeq(metrics, LAMBDA metric : HasKnownStandard(metric, standard_mappings))

\* C17: batch_compare never raises for a metric without a mapping or mapped to
\* an unknown key: the metric is skipped, it is absent from the comparisons of
\* the output and from every count; metrics_compared is the number of metrics
\* mapped to a known standard, the four counts add up to metrics_compared, and
\* comparison_history grows by exactly metrics_compared entries.
C17_Step ==
    ret'.op = "batch_compare" =>
        LET known == KnownMetrics(ret'.args[1], ret'.args[2])
            out == ret'.value
        IN  /\ ~ret'.raised
            /\ out.metrics_compared = Len(known)
            /\ Len(out.comparisons) = Len(known)
            /\ \A k \in 1..Len(known) :
                  /\ out.comparisons[k].actual_value = RRound(known[k][2], 10000)
                  /\ \E m \in ret'.args[2] :
                        /\ m[1] = known[k][1]
                        /\ out.comparisons[k].benchmark_name = INDUSTRY_STANDARDS[m[2]].name
            /\ out.summary.exceeds_standard + out.summary.meets_standard
                  + out.summary.below_standard + out.summary.significantly_below
                  = out.metrics_compared
            /\ IsPrefix(comparison_history, comparison_history')
            /\ Len(comparison_history') = Len(comparison_history) + out.metrics_compared

C17_BatchSkipsSilently == [][C17_Step]_vars

C17_Witness ==
    /\ ret.op = "batch_compare"
    /\ ~ret.raised
    /\ Len(ret.args[1]) = 2
    /\ \E m \in ret.args[2] : m[1] = "rps" /\ m[2] \notin DOMAIN INDUSTRY_STANDARDS
    /\ ret.value.metrics_compared = 1
    /\ Len(comparison_history) = 1

HasResult(comparisons, r) == \E k \in 1..Len(comparisons) : comparisons[k].result = r

\* C18: the overall_status of batch_compare is 'critical' if some comparison is
\* significantly_below, otherwise 'warning' if some is below_standard, otherwise
\* 'good' if some is meets_standard, otherwise 'excellent'; it is 'excellent'
\* when no metric was compared.
C18_OverallStatus ==
    (ret.op = "batch_compare" /\ ~ret.raised) =>
        LET comparisons == ret.value.comparisons
        IN  /\ ret.value.overall_status =
                  IF HasResult(comparisons, "significantly_below") THEN "critical"
                  ELSE IF HasResult(comparisons, "below_standard") THEN "warning"
                  ELSE IF HasResult(comparisons, "meets_standard") THEN "good"
                  ELSE "excellent"
            /\ comparisons = <<>> => ret.value.overall_status = "excellent"

C18_Witness ==
    /\ ret.op = "batch_compare"
    /\ ~ret.raised
    /\ HasResult(ret.value.comparisons, "below_standard")
    /\ HasResult(ret.value.comparisons, "meets_standard")
    /\ ret.value.overall_status = "warning"

\* C19: generate_report, in each of the formats json, text, markdown and html
\* and after any add_*_section calls, leaves sections, anomalies and
\* report_metadata unchanged, and what it returns is what rendering the same
\* format again would return; an unsupported format raises and changes nothing.
C19_Step ==
    ret'.op = "generate_report" =>
        /\ sections' = sections
        /\ anomalies' = anomalies
        /\ report_metadata' = report_metadata
        /\ ret'.raised <=> ret'.args[1] \notin ReportFormats
        /\ ~ret'.raised =>
              /\ ret'.value.format = ret'.args[1]
              /\ ret'.value = RenderReport(ret'.args[1], ret'.args[2],
                                           sections', anomalies', report_metadata')

C19_RenderingIsPure == [][C19_Step]_vars

C19_Witness ==
    /\ ret.op = "generate_report"
    /\ ~ret.raised
    /\ ret.args[1] = "markdown"
    /\ Len(sections) = 2
    /\ Len(anomalies) >= 2
    /\ ret.value.total_anomalies = Len(anomalies)

AddSectionCalls ==
    {"add_validation_section", "add_scaling_section", "add_performance_section",
     "add_benchmarking_section"}

\* C20: each add_*_section call only reads the analyzer it is given: the
\* analyzer's validation_history, user_samples, projections, latency_history,
\* throughput_history, load_test_results, comparison_history and
\* custom_baselines are after the call what they were before it.
C20_Step ==
    ret'.op \in AddSectionCalls =>
        /\ validation_history' = validation_history
        /\ user_samples' = user_samples
        /\ projections' = projections
        /\ latency_history' = latency_history
        /\ throughput_history' = throughput_history
        /\ load_test_results' = load_test_results
        /\ comparison_history' = comparison_history
        /\ custom_baselines' = custom_baselines

C20_SectionsReadOnly == [][C20_Step]_vars

\* the number of collections of the analyzer that a step changes
ChangedOfAnalyzer ==
    (IF validation_history' # validation_history THEN 1 ELSE 0)
    + (IF user_samples' # user_samples THEN 1 ELSE 0)
    + (IF projections' # projections THEN 1 ELSE 0)
    + (IF latency_history' # latency_history THEN 1 ELSE 0)
    + (IF throughput_history' # throughput_history THEN 1 ELSE 0)
    + (IF load_test_results' # load_test_results THEN 1 ELSE 0)
    + (IF custom_baselines' # custom_baselines THEN 1 ELSE 0)
    + (IF comparison_history' # comparison_history THEN 1 ELSE 0)

\* the number of collections of the report generator that a step changes
ChangedOfGenerator ==
    (IF sections' # sections THEN 1 ELSE 0) + (IF anomalies' # anomalies THEN 1 ELSE 0)

\* C21: no public method call of an analyzer or of the report generator
\* modifies more than one collection owned by the object it is called on.
C21_Step ==
    IF ret'.op \in AddSectionCalls \cup {"generate_report"}
    THEN ChangedOfGenerator <= 1
    ELSE ChangedOfAnalyzer <= 1

C21_OneCollectionPerCall == [][C21_Step]_vars

\* C22: calculate_performance_trends on fewer than 2 latency samples and
\* analyze_scaling_efficiency on fewer than 2 load tests do not raise: each
\* returns a value with exactly the keys error and timestamp, and leaves
\* latency_history, throughput_history and load_test_results unchanged.
C22_Step ==
    (\/ ret'.op = "calculate_performance_trends" /\ Len(latency_history) < 2
     \/ ret'.op = "analyze_scaling_efficiency" /\ Len(ret'.args[1]) < 2) =>
        /\ ~ret'.raised
        /\ DOMAIN ret'.value = {"error", "timestamp"}
        /\ latency_history' = latency_history
        /\ throughput_history' = throughput_history
        /\ load_test_results' = load_test_results

C22_ShortInputsReturnError == [][C22_Step]_vars

C22_Witness ==
    /\ ret.op = "analyze_scaling_efficiency"
    /\ Len(ret.args[1]) = 1
    /\ ~ret.raised
    /\ DOMAIN ret.value = {"error", "timestamp"}
    /\ Len(latency_history) = 1

StatusRank(status) ==
    IF status = "critical" THEN 4
    ELSE IF status = "degraded" THEN 3
    ELSE IF status = "acceptable" THEN 2
    ELSE IF status = "good" THEN 1
    ELSE 0

\* the statuses of the components a performance report holds
ComponentStatuses(report) ==
    {report.latency[k].status : k \in 1..Len(report.latency)}
        \cup {report.throughput[k].status : k \in 1..Len(report.throughput)}
        \cup {report.scaling[k].status : k \in 1..Len(report.scaling)}

\* C23: the overall_status of generate_performance_report is the worst status
\* among the components of the report (latency, throughput and, with at least
\* 2 load tests, scaling) by critical > degraded > acceptable > good >
\* excellent.
C23_OverallIsWorstComponent ==
    (/\ ret.op = "generate_performance_report"
     /\ ~ret.raised
     /\ ComponentStatuses(ret.value) # {}) =>
        /\ ret.value.summary.overall_status \in ComponentStatuses(ret.value)
        /\ \A status \in ComponentStatuses(ret.value) :
              StatusRank(status) <= StatusRank(ret.value.summary.overall_status)

CountAnomalies(found, category, severity) ==
    Cardinality({k \in 1..Len(found) :
                    found[k].category = category /\ found[k].severity = severity})

\* C24: add_validation_section derives from the validator's history one
\* resource_validation anomaly of severity critical per entry of status
\* critical, one of severity error per entry of status discrepancy, one
\* cost_anomaly of severity warning per entry whose discrepancy_cost exceeds
\* 1000, and nothing else; discrepancies_found of the section is the number of
\* resource_validation anomalies.
C24_Step ==
    (ret'.op = "add_validation_section" /\ validation_history # <<>>) =>
        LET found == SubSeq(anomalies', Len(anomalies) + 1, Len(anomalies'))
            section == sections'[Len(sections')]
            costly == {k \in 1..Len(validation_history) :
                          RLt(RInt(1000), validation_history[k].discrepancy_cost)}
        IN  /\ Len(sections') = Len(sections) + 1
            /\ IsPrefix(anomalies, anomalies')
            /\ section.anomalies = found
            /\ CountAnomalies(found, "resource_validation", "critical")
                  = CountStatus(validation_history, "critical")
            /\ CountAnomalies(found, "resource_validation", "error")
                  = CountStatus(validation_history, "discrepancy")
            /\ CountAnomalies(found, "cost_anomaly", "warning") = Cardinality(costly)
            /\ Len(found) = CountStatus(validation_history, "critical")
                               + CountStatus(validation_history, "discrepancy")
                               + Cardinality(costly)
            /\ section.data.discrepancies_found
                  = Cardinality({k \in 1..Len(found) :
                                    found[k].category = "resource_validation"})

C24_ValidationAnomalies == [][C24_Step]_vars

C24_Witness ==
    /\ ret.op = "add_validation_section"
    /\ Len(validation_history) = 2
    /\ validation_history[1].status = "discrepancy"
    /\ validation_history[1].discrepancy_cost = RInt(1000)
    /\ validation_history[2].status = "critical"
    /\ Len(sections) = 1
    /\ Len(sections[1].anomalies) = 3
    /\ sections[1].data.discrepancies_found = 2

RECURSIVE SectionAnomalyCount(_, _)
SectionAnomalyCount(report_sections, k) ==
    IF k = 0 THEN 0
    ELSE SectionAnomalyCount(report_sections, k - 1) + Len(report_sections[k].anomalies)

\* C25: in every rendered report the executive summary accounts for every
\* anomaly: total_anomalies is the sum of the sections' anomaly counts,
\* sections_analyzed is the number of sections, and the critical, error and
\* warning counts add up to total_anomalies.
C25_SummaryAccountsForAll ==
    (ret.op = "generate_report" /\ ~ret.raised /\ ret.value.format = "json") =>
        LET summary == ret.value.executive_summary
        IN  /\ summary.total_anomalies = SectionAnomalyCount(sections, Len(sections))
            /\ summary.sections_analyzed = Len(sections)
            /\ summary.critical_anomalies + summary.error_anomalies
                  + summary.warning_anomalies = summary.total_anomalies

\* C26: generate_performance_report is repeatable: the latency, throughput,
\* trends and summary it returns are those a second call made right after it,
\* with no analyze_latency or analyze_throughput call in between, returns.
C26_Step ==
    (ret'.op = "generate_performance_report" /\ ~ret'.raised) =>
        LET again == PerformanceReport(latency_history', throughput_history',
                                       load_test_results')
        IN  /\ ret'.value.latency = again.latency
            /\ ret'.value.throughput = again.throughput
            /\ ret'.value.trends = again.trends
            /\ ret'.value.summary = again.summary

C26_ReportRepeatable == [][C26_Step]_vars

\* C27: zero denominators never surface as an error in the pairwise ratio
\* analyses: generate_scaling_report after any add_user_sample and
\* project_to_scale calls with target user counts >= 0, and
\* analyze_scaling_efficiency for any list of at least 2 load tests with
\* concurrent_users >= 0, return a result without raising.
C27_ZeroDenominatorsGuarded ==
    /\ ret.op = "generate_scaling_report" => ~ret.raised
    /\ (ret.op = "analyze_scaling_efficiency" /\ Len(ret.args[1]) >= 2) => ~ret.raised

\* the lists holding the elements of s in every order
PermutationsOf(s) ==
    {[k \in 1..Len(s) |-> s[p[k]]] :
        p \in {f \in [1..Len(s) -> 1..Len(s)] :
                  \A i, j \in 1..Len(s) : i # j => f[i] # f[j]}}

\* analyze_scaling_efficiency(load_tests) as a value: raised or the result
ScalingOutcome(load_tests) ==
    IF ScalingDividesByZero(load_tests) THEN <<"ZeroDivisionError">>
    ELSE LET analysis == ScalingAnalysis(load_tests)
         IN  <<analysis.status, analysis.average_scaling_score, analysis.scaling_metrics>>

\* C28: the result of analyze_scaling_efficiency does not depend on the order
\* of its input list: for a list of at least 2 load tests every permutation
\* of it gives the same status, average_scaling_score and scaling_metrics,
\* and the call leaves load_test_results unchanged.
C28_Step ==
    (ret'.op = "analyze_scaling_efficiency" /\ Len(ret'.args[1]) >= 2) =>
        /\ load_test_results' = load_test_results
        /\ \A permuted \in PermutationsOf(ret'.args[1]) :
              ScalingOutcome(permuted) = ScalingOutcome(ret'.args[1])

C28_OrderIndependent == [][C28_Step]_<<ret.op, ret.args, ret.raised, vars>>

\* C29: every report returned by generate_scaling_report is internally
\* consistent: sample_size is the number of samples, each entry of
\* scale_projections is the projection project_to_scale computes for that user
\* count from the average user profile of the report, and the report holds the
\* 7 canonical projections when no projection existed, the existing ones
\* otherwise.
C29_Step ==
    (ret'.op = "generate_scaling_report" /\ ~ret'.raised /\ user_samples # <<>>) =>
        LET shown == ret'.value.scale_projections
        IN  /\ ret'.value.sample_size = Len(user_samples)
            /\ ret'.value.average_user_profile
                  = ProfileDict(calculate_average_user_profile(user_samples))
            /\ \A k \in 1..Len(shown) :
                  shown[k] = ProjectionDict(ScaleProjection(shown[k].user_count,
                                                calculate_average_user_profile(user_samples)))
            /\ IF projections = <<>>
               THEN /\ Len(shown) = 7
                    /\ \A k \in 1..7 : shown[k].user_count = scale_targets[k]
               ELSE Len(shown) = Len(projections)

C29_ReportConsistent == [][C29_Step]_<<ret.op, ret.args, ret.raised, vars>>

CloseToClaim(result) ==
    RLt(RAbs(RSub(result.claimed, result.actual)), RScale(result.claimed, 5, 100))

\* C30: a status of VALID means the measured usage is close to the claim:
\* for every result of validate_storage or validate_compute, and every entry
\* of validation_history, status valid implies that |claimed - actual| in
\* canonical units is less than 5% of claimed, a claimed amount of 0 included.
C30_ValidIsClose ==
    /\ (ret.op \in {"validate_storage", "validate_compute"} /\ ~ret.raised
            /\ ret.value.status = "valid") => CloseToClaim(ret.value)
    /\ \A k \in 1..Len(validation_history) :
          validation_history[k].status = "valid" => CloseToClaim(validation_history[k])

====
